---- MODULE Spec2Model ----
(***************************************************************************)
(* Model of highdicom's Segmentation SOP class (seg/sop.py), its dimension *)
(* index (seg/content.py) and the frame codec it drives (frame.py).        *)
(*                                                                         *)
(* Conventions.  Python lists and numpy arrays are TLA+ sequences.  Values *)
(* that are 0-based indices in the code (plane indices j, rows of the      *)
(* plane sort index, the source-instance column of the frame LUT) keep     *)
(* their 0-based VALUE; only the subscripting is shifted by one.  A 2-D    *)
(* plane of Rows x Columns samples is the row-major sequence of its        *)
(* samples.  A float sample v is the integer v * FloatDen.                 *)
(***************************************************************************)
EXTENDS Integers, Sequences, FiniteSets, TLC

\* ---------------------------------------------------------------- bounds
\* Largest number of segments an object of the model may hold.
MaxSegments == 2

\* Calls of add_segments in which the frame codec fails, per object.
MaxCodecErrors == 1

\* ------------------------------------------------------ program constants
NO_FRAME_REF_VALUE == -1
\* Denominator of the fixed-point stand-in for floating point samples.
FloatDen == 4
\* b'0', the byte appended when len(PixelData) is odd (sop.py:916).
PadByte == 48

\* ------------------------------------------------------- sequence helpers
Range(s) == {s[i] : i \in DOMAIN s}

RECURSIVE SeqSum(_)
SeqSum(s) == IF s = <<>> THEN 0 ELSE Head(s) + SeqSum(Tail(s))

RECURSIVE Flatten(_)
Flatten(ss) == IF ss = <<>> THEN <<>> ELSE Head(ss) \o Flatten(Tail(ss))

SetMax(S) == CHOOSE x \in S : \A y \in S : y <= x

\* Lexicographic order on integer tuples of one length (numpy's row order).
RECURSIVE LexLess(_, _)
LexLess(a, b) ==
    IF a = <<>> \/ b = <<>> THEN FALSE
    ELSE IF Head(a) # Head(b) THEN Head(a) < Head(b)
    ELSE LexLess(Tail(a), Tail(b))

\* numpy.unique(..., axis=0): the distinct rows in ascending order.
RECURSIVE np_unique(_)
np_unique(S) ==
    IF S = {} THEN <<>>
    ELSE LET m == CHOOSE x \in S : \A y \in S : ~LexLess(y, x)
         IN <<m>> \o np_unique(S \ {m})

\* Index (1-based subscript) of the first occurrence of v in s.
FirstIndex(s, v) == CHOOSE i \in DOMAIN s : s[i] = v /\ \A k \in 1..(i-1) : s[k] # v

\* ------------------------------------------------ seg/content.py: indexing
\* DimensionIndexSequence.__init__: the indexed attributes after the segment
\* number, in the order of the Dimension Index Pointers.
DimensionIndexPointers(coordinate_system) ==
    IF coordinate_system = "SLIDE"
    THEN << "ColumnPositionInTotalImagePixelMatrix",
            "RowPositionInTotalImagePixelMatrix",
            "XOffsetInSlideCoordinateSystem",
            "YOffsetInSlideCoordinateSystem",
            "ZOffsetInSlideCoordinateSystem" >>
    ELSE << "ImagePositionPatient" >>

\* The row of plane_position_values of one plane: one value (a tuple) per
\* indexed attribute.
PositionValues(coordinate_system, p) ==
    LET ptr == DimensionIndexPointers(coordinate_system)
    IN [k \in DOMAIN ptr |-> p[ptr[k]]]

\* DimensionIndexSequence.get_index_values: (plane_position_values,
\* plane_sort_indices).  numpy.unique(axis=0, return_index=True) gives, for
\* every DISTINCT row in ascending order, the index of its first occurrence.
get_index_values(coordinate_system, plane_positions) ==
    LET plane_position_values ==
            [i \in DOMAIN plane_positions |->
                PositionValues(coordinate_system, plane_positions[i])]
        rows == [i \in DOMAIN plane_positions |-> Flatten(plane_position_values[i])]
        uniq == np_unique(Range(rows))
    IN [ plane_position_values |-> plane_position_values,
         plane_sort_index |-> [k \in DOMAIN uniq |-> FirstIndex(rows, uniq[k]) - 1] ]

\* ------------------------------------------------------- pixel encodings
RECURSIVE Pow2(_)
Pow2(n) == IF n = 0 THEN 1 ELSE 2 * Pow2(n - 1)

Zeros(n) == [i \in 1..n |-> 0]

\* The pydicom release the program runs with is not pinned by the package.
\* pack_bits of pydicom >= 2.1 has the keyword pad = True, which neither
\* call site (sop.py:964, frame.py:122) switches off, and appends a null
\* byte to a packed string of odd length; pack_bits of pydicom <= 2.0 has
\* no such step.  pack_bits_pad tells which of the two the build has; it
\* never changes during a run.
VARIABLE pack_bits_pad

\* pydicom's padding of a packed byte string to even length.
pad_to_even(packed) ==
    IF pack_bits_pad /\ Len(packed) % 2 = 1 THEN Append(packed, 0) ELSE packed

\* Packing that puts the first sample in the highest bit.
pack_bits_msb(bits) ==
    LET padded == IF Len(bits) % 8 = 0 THEN bits
                  ELSE bits \o Zeros(8 - (Len(bits) % 8))
    IN pad_to_even([b \in 1..(Len(padded) \div 8) |->
            SeqSum([k \in 1..8 |-> padded[8 * (b - 1) + k] * Pow2(8 - k)])])

\* pydicom pack_bits as called at sop.py:964 and frame.py:122: the flat 0/1
\* array is zero-padded to a multiple of 8 and packed 8 samples per byte,
\* the first sample in bit 0; the packed string is then padded to even
\* length where the build's pack_bits does so.
pack_bits(bits) ==
    LET padded == IF Len(bits) % 8 = 0 THEN bits
                  ELSE bits \o Zeros(8 - (Len(bits) % 8))
    IN pad_to_even([b \in 1..(Len(padded) \div 8) |->
            SeqSum([k \in 1..8 |-> padded[8 * (b - 1) + k] * Pow2(k - 1)])])

\* The inverse used by Dataset.pixel_array for BitsAllocated = 1.
unpack_bits(bytes) ==
    [k \in 1..(8 * Len(bytes)) |->
        (bytes[((k - 1) \div 8) + 1] \div Pow2((k - 1) % 8)) % 2]

\* numpy.around: round half to even, on the fraction num / den (den > 0).
RoundHalfEven(num, den) ==
    LET q == num \div den
        r == num % den
    IN IF 2 * r < den THEN q
       ELSE IF 2 * r > den THEN q + 1
       ELSE IF q % 2 = 0 THEN q ELSE q + 1

\* TransferSyntaxUID.is_encapsulated for the transfer syntaxes the
\* constructor and the frame codec accept.
is_encapsulated(transfer_syntax_uid) ==
    transfer_syntax_uid \in {"JPEGBaseline", "JPEG2000Lossless", "RLELossless"}

\* frame.encode_frame for a monochrome plane.  A compressed frame is the
\* opaque output of the external codec: the syntax it was written in and the
\* samples it decodes to.
encode_frame(plane, transfer_syntax_uid, bits_allocated, rows, cols) ==
    IF transfer_syntax_uid \notin {"ExplicitVRLittleEndian", "ImplicitVRLittleEndian",
                                   "JPEGBaseline", "JPEG2000Lossless", "RLELossless"}
    THEN [raised |-> "ValueError: transfer syntax not supported", value |-> <<>>]
    ELSE IF transfer_syntax_uid \in {"ExplicitVRLittleEndian", "ImplicitVRLittleEndian"}
    THEN IF bits_allocated = 1
         THEN IF (rows * cols) % 8 # 0
              THEN [raised |-> "ValueError: frame size is not a multiple of 8",
                    value |-> <<>>]
              ELSE [raised |-> "", value |-> pack_bits(plane)]
         ELSE [raised |-> "", value |-> plane]
    ELSE [raised |-> "",
          value |-> [transfer_syntax_uid |-> transfer_syntax_uid, samples |-> plane]]

BitsAllocated(c) == IF c.SegmentationType = "BINARY" THEN 1 ELSE 8

\* Segmentation._encode_pixels for a list of planes under a native transfer
\* syntax (sop.py:961-966): one flat byte string.
encode_pixels_native(c, planes) ==
    IF c.SegmentationType = "BINARY" THEN pack_bits(Flatten(planes))
    ELSE Flatten(planes)

\* _encode_pixels without the check of sop.py:943-952: of several planes the
\* first is encoded.
encode_pixels_first_plane(c, planes) ==
    IF is_encapsulated(c.TransferSyntaxUID)
    THEN encode_frame(planes[1], c.TransferSyntaxUID, BitsAllocated(c), c.Rows, c.Columns)
    ELSE [raised |-> "", value |-> encode_pixels_native(c, planes)]

\* Segmentation._encode_pixels (sop.py:920-966) for a 3-D array of planes.
encode_pixels(c, planes) ==
    IF is_encapsulated(c.TransferSyntaxUID)
    THEN IF Len(planes) = 1
         THEN encode_frame(planes[1], c.TransferSyntaxUID, BitsAllocated(c),
                           c.Rows, c.Columns)
         ELSE [raised |-> "ValueError: Only single frame can be encoded at a time",
               value |-> <<>>]
    ELSE [raised |-> "", value |-> encode_pixels_native(c, planes)]

\* sop.py:237-248, the first check of Segmentation.__init__ that reads one
\* of these arguments: the exception raised, "" for none.
init_transfer_syntax_error(c) ==
    IF c.TransferSyntaxUID \notin {"ImplicitVRLittleEndian", "ExplicitVRLittleEndian",
                                   "JPEG2000Lossless", "RLELossless"}
    THEN "ValueError: Transfer syntax is not supported"
    ELSE ""

\* The checks Segmentation.__init__ makes of segmentation_type,
\* transfer_syntax_uid and max_fractional_value (sop.py:237-248 and 326-355):
\* the exception raised, "" for none.
init_checks(c) ==
    IF init_transfer_syntax_error(c) # ""
    THEN init_transfer_syntax_error(c)
    ELSE IF c.SegmentationType = "BINARY"
    THEN IF is_encapsulated(c.TransferSyntaxUID)
         THEN "ValueError: transfer syntax is not compatible with the BINARY segmentation type"
         ELSE ""
    ELSE IF c.SegmentationType = "FRACTIONAL"
    THEN IF c.MaximumFractionalValue > Pow2(8)
         THEN "ValueError: Maximum fractional value must not exceed image bit depth."
         ELSE ""
    ELSE "ValueError: Unknown segmentation type"

\* pydicom get_expected_length(ds) in bytes, as used at sop.py:734.
get_expected_length(c, NumberOfFrames) ==
    LET n == c.Rows * c.Columns * NumberOfFrames
    IN IF BitsAllocated(c) = 1 THEN (n + 7) \div 8 ELSE n

\* Dataset.pixel_array flattened: the decoded samples of all stored frames.
\* raised is set when PixelData holds fewer bytes / items than
\* NumberOfFrames frames need.
pixel_array_flat(c, NumberOfFrames, PixelData) ==
    LET n == c.Rows * c.Columns * (IF NumberOfFrames = 0 THEN 1 ELSE NumberOfFrames)
    IN IF is_encapsulated(c.TransferSyntaxUID)
       THEN IF Len(PixelData) < (IF NumberOfFrames = 0 THEN 1 ELSE NumberOfFrames)
            THEN [raised |-> "ValueError: pixel data too short", value |-> <<>>]
            ELSE [raised |-> "",
                  value |-> Flatten([k \in 1..NumberOfFrames |-> PixelData[k].samples])]
       ELSE IF Len(PixelData) < get_expected_length(c, IF NumberOfFrames = 0 THEN 1 ELSE NumberOfFrames)
            THEN [raised |-> "ValueError: pixel data too short", value |-> <<>>]
            ELSE [raised |-> "",
                  value |-> IF BitsAllocated(c) = 1
                            THEN SubSeq(unpack_bits(PixelData), 1, n)
                            ELSE SubSeq(PixelData, 1, n)]

\* ------------------------------------------------- seg/sop.py: frame LUTs
\* Segmentation._get_src_uid_index: 0-based index of the UID among the
\* referenced source instances, -1 standing for the KeyError.
get_src_uid_index(c, sop_instance_uid) ==
    IF \E i \in DOMAIN c.SourceImageSequence : c.SourceImageSequence[i] = sop_instance_uid
    THEN FirstIndex(c.SourceImageSequence, sop_instance_uid) - 1
    ELSE -1

\* The source references of one per-frame item, flattened over its
\* derivation items (sop.py:1115-1116).
FrameSourceItems(frame_item) ==
    Flatten([d \in DOMAIN frame_item.DerivationImageSequence |->
                frame_item.DerivationImageSequence[d].SourceImageSequence])

frame_source_instances(frame_item) ==
    LET src == FrameSourceItems(frame_item)
    IN [k \in DOMAIN src |-> src[k].ReferencedSOPInstanceUID]

frame_source_frames(frame_item) ==
    LET src == FrameSourceItems(frame_item)
    IN Flatten([k \in DOMAIN src |->
                  IF src[k].ReferencedFrameNumber = <<>> THEN <<NO_FRAME_REF_VALUE>>
                  ELSE src[k].ReferencedFrameNumber])

\* The test of sop.py:1149-1152 for one frame.
HasSingleSourceFrame(frame_item) ==
    /\ Cardinality(Range(frame_source_instances(frame_item))) = 1
    /\ Cardinality(Range(frame_source_frames(frame_item))) = 1

\* Segmentation._build_luts applied to the object's per-frame items.  The
\* frame LUT is assigned only when every frame has a single source frame;
\* otherwise the attribute keeps whatever it held before the call.
build_luts(c, self) ==
    LET frames == self.PerFrameFunctionalGroupsSequence
        single == \A i \in DOMAIN frames : HasSingleSourceFrame(frames[i])
        IsDangling(i) ==
            /\ HasSingleSourceFrame(frames[i])
            /\ get_src_uid_index(c, frame_source_instances(frames[i])[1]) = -1
        dangling == \E i \in DOMAIN frames : IsDangling(i)
        first == CHOOSE i \in DOMAIN frames :
                    IsDangling(i) /\ \A k \in 1..(i - 1) : ~IsDangling(k)
        locations_preserved ==
            Flatten([i \in DOMAIN frames |->
                LET src == FrameSourceItems(frames[i])
                IN [k \in DOMAIN src |->
                      IF src[k].SpatialLocationsPreserved = "" THEN "UNKNOWN"
                      ELSE src[k].SpatialLocationsPreserved]])
        summary == IF \E k \in DOMAIN locations_preserved : locations_preserved[k] = "NO"
                   THEN "NO"
                   ELSE IF \A k \in DOMAIN locations_preserved : locations_preserved[k] = "YES"
                   THEN "YES"
                   ELSE "None"
    IN IF dangling
       THEN [raised |-> "DicomAttributeError",
             self |-> [self EXCEPT !.single_source_frame_per_seg_frame =
                          \A k \in 1..(first - 1) : HasSingleSourceFrame(frames[k])]]
       ELSE [raised |-> "",
             self |-> [self EXCEPT
                 !.single_source_frame_per_seg_frame = single,
                 !.locations_preserved = summary,
                 !.has_frame_lut = IF single THEN TRUE ELSE @,
                 !.frame_lut =
                     IF single
                     THEN [i \in DOMAIN frames |->
                             << frames[i].ReferencedSegmentNumber,
                                get_src_uid_index(c, frame_source_instances(frames[i])[1]),
                                frame_source_frames(frames[i])[1] >>]
                     ELSE @]]

\* -------------------------------------------- seg/sop.py: add_segments
IntegerDtypes == {"bool", "uint8", "uint16"}
FloatDtypes == {"float32", "float64"}

described_segment_numbers(segment_descriptions) ==
    [i \in DOMAIN segment_descriptions |-> segment_descriptions[i].SegmentNumber]

\* sop.py:553-561.
seg_num_start(self) ==
    IF self.segment_inventory # {} THEN SetMax(self.segment_inventory) + 1 ELSE 1

\* The check of sop.py:571 weakened to ">= 1": gaps pass.
increasing_with_gaps(numbers) ==
    \A i \in 1..(Len(numbers) - 1) : numbers[i + 1] - numbers[i] >= 1

\* sop.py:571, (np.diff(described_segment_numbers) == 1).all().
increasing_by_one(numbers) ==
    \A i \in 1..(Len(numbers) - 1) : numbers[i + 1] - numbers[i] = 1

\* sop.py:542-543, a 2-D array becomes a stack of one plane.
as_3d(pixel_array) ==
    IF Len(pixel_array.shape) = 2
    THEN [pixel_array EXCEPT !.shape = <<1>> \o @]
    ELSE pixel_array

\* sop.py:628-631, the values strictly between 0.0 and 1.0.
non_boolean_values(samples) == {v \in samples : v > 0 /\ v < FloatDen}

\* The checks of sop.py:537-643 in their order.  np.min of the values of a
\* float array without a plane raises (sop.py:616-617); an integer array
\* without a plane passes.  raised is "" when they all pass; pixel_array is the array as the rest of the method sees it (a
\* relabelled copy in the single binary segment case, a boolean copy for
\* float input of a BINARY object).
check_arguments(c, self, pixel_array_in, segment_descriptions) ==
    LET pixel_array == as_3d(pixel_array_in)
        numbers == described_segment_numbers(segment_descriptions)
        samples == Range(Flatten(pixel_array.data))
        segments_present == {v \in samples : v > 0}
        Fail(e) == [raised |-> e, pixel_array |-> pixel_array]
        Pass(a) ==
            IF Range(numbers) \cap self.segment_inventory # {}
            THEN [raised |-> "ValueError: Segment with given segment number already exists",
                  pixel_array |-> a]
            ELSE [raised |-> "", pixel_array |-> a]
    IN IF ~c.has_source_images
       THEN Fail("AttributeError: created from existing dataset")
       ELSE IF Len(pixel_array.shape) # 3
       THEN Fail("ValueError: Pixel array must be a 2D or 3D array.")
       ELSE IF <<pixel_array.shape[2], pixel_array.shape[3]>> # <<c.Rows, c.Columns>>
       THEN Fail("ValueError: wrong number of rows and columns")
       ELSE IF ~increasing_by_one(numbers)
       THEN Fail("ValueError: Segment descriptions must be monotonically increasing by 1")
       ELSE IF numbers = <<>>
       THEN Fail("IndexError: index 0 is out of bounds")
       ELSE IF numbers[1] # seg_num_start(self)
       THEN Fail("ValueError: unexpected first segment number")
       ELSE IF pixel_array.dtype \in IntegerDtypes
       THEN IF segments_present = {1} /\ Len(segment_descriptions) = 1
            THEN Pass([pixel_array EXCEPT
                        !.dtype = "uint8",
                        !.data = [j \in DOMAIN @ |-> [k \in DOMAIN @[j] |->
                                    (@[j][k] * numbers[1]) % 256]]])
            ELSE IF ~(segments_present \subseteq Range(numbers))
            THEN Fail("ValueError: Pixel array contains segments that lack descriptions.")
            ELSE Pass(pixel_array)
       ELSE IF pixel_array.dtype \in FloatDtypes
       THEN IF samples = {}
            THEN Fail("ValueError: zero-size array to reduction operation minimum which has no identity")
            ELSE IF \E v \in samples : v < 0 \/ v > FloatDen
            THEN Fail("ValueError: Floating point values must be in the range [0, 1].")
            ELSE IF Len(segment_descriptions) # 1
            THEN Fail("ValueError: provide only a single segment description")
            ELSE IF c.SegmentationType = "BINARY"
            THEN IF non_boolean_values(samples) # {}
                 THEN Fail("ValueError: values must be either 0.0 or 1.0")
                 ELSE Pass([pixel_array EXCEPT
                        !.dtype = "bool",
                        !.data = [j \in DOMAIN @ |-> [k \in DOMAIN @[j] |->
                                    IF @[j][k] # 0 THEN 1 ELSE 0]]])
            ELSE Pass(pixel_array)
       ELSE Fail("TypeError: Pixel array has an invalid data type.")

\* sop.py:692-698.  all() stops at the first differing position; with no
\* difference among the source positions it runs off their end when more
\* plane positions than source positions were given.
are_spatial_locations_preserved(c, plane_positions) ==
    LET source_plane_positions == c.source_plane_positions
        common == IF Len(plane_positions) < Len(source_plane_positions)
                  THEN Len(plane_positions) ELSE Len(source_plane_positions)
    IN IF \E i \in 1..common : plane_positions[i] # source_plane_positions[i]
       THEN [raised |-> "", value |-> FALSE]
       ELSE IF Len(plane_positions) > Len(source_plane_positions)
       THEN [raised |-> "IndexError: list index out of range", value |-> FALSE]
       ELSE [raised |-> "", value |-> c.plane_orientation_is_source_orientation]

\* sop.py:705-708, the distinct values of every indexed attribute, ascending.
\* The array made of no plane position has one axis only, and shape[1]
\* raises.
dimension_position_values(plane_position_values) ==
    IF plane_position_values = <<>>
    THEN [raised |-> "IndexError: tuple index out of range", value |-> <<>>]
    ELSE [raised |-> "",
          value |-> [idx \in DOMAIN plane_position_values[1] |->
            np_unique({plane_position_values[j][idx] : j \in DOMAIN plane_position_values})]]

\* sop.py:714-730.
framewise_encoding(c) ==
    /\ ~is_encapsulated(c.TransferSyntaxUID)
    /\ \/ c.SegmentationType = "FRACTIONAL"
       \/ c.SegmentationType = "BINARY" /\ (c.Rows * c.Columns) % 8 = 0

\* sop.py:753-767, the planes of one segment.
segment_planes(c, pixel_array, segment_number) ==
    IF pixel_array.dtype \in FloatDtypes
    THEN [j \in DOMAIN pixel_array.data |-> [k \in DOMAIN pixel_array.data[j] |->
            RoundHalfEven(pixel_array.data[j][k] * c.MaximumFractionalValue, FloatDen) % 256]]
    ELSE IF pixel_array.dtype \in {"uint8", "uint16"}
    THEN [j \in DOMAIN pixel_array.data |-> [k \in DOMAIN pixel_array.data[j] |->
            IF pixel_array.data[j][k] = segment_number THEN 1 ELSE 0]]
    ELSE pixel_array.data

\* sop.py:770-778, the planes of plane_sort_index that are not empty.
contained_plane_index(planes, plane_sort_index) ==
    LET NotEmpty(j) == SeqSum(planes[j + 1]) # 0
    IN SelectSeq(plane_sort_index, NotEmpty)

\* sop.py:843, the test that tells a multi-frame source image from a series.
refers_to_frames(c, plane_sort_index) ==
    Len(plane_sort_index) > Len(c.SourceImageSequence)

\* sop.py:785-879, the per-frame functional group item of plane j.
frame_item(c, segment_number, j, plane_positions, index, preserved) ==
    LET values == index.plane_position_values
        distinct == dimension_position_values(values).value
        index_values == [idx \in DOMAIN values[j + 1] |->
                            FirstIndex(distinct[idx], values[j + 1][idx])]
    IN [ DimensionIndexValues |-> <<segment_number>> \o index_values,
         PlanePosition |-> plane_positions[j + 1],
         DerivationImageSequence |->
            IF preserved
            THEN << [SourceImageSequence |-> <<
                      [ReferencedSOPInstanceUID |->
                            IF refers_to_frames(c, index.plane_sort_index)
                            THEN c.SourceImageSequence[1]
                            ELSE c.SourceImageSequence[j + 1],
                       ReferencedFrameNumber |->
                            IF refers_to_frames(c, index.plane_sort_index)
                            THEN <<j + 1>> ELSE <<>>,
                       SpatialLocationsPreserved |-> "YES"] >>] >>
            ELSE <<>>,
         ReferencedSegmentNumber |-> segment_number ]

\* sop.py:850, SourceImageSequence[j] of a plane without a source image.
frame_item_raises(c, j, plane_sort_index, preserved) ==
    /\ preserved
    /\ ~refers_to_frames(c, plane_sort_index)
    /\ j + 1 > Len(c.SourceImageSequence)

\* sop.py:880-881 with the items put before the stored ones.
prepend_frames(self, items) ==
    [self EXCEPT
        !.PerFrameFunctionalGroupsSequence = items \o @,
        !.NumberOfFrames = @ + Len(items)]

\* sop.py:880-881 for the planes of one segment: every item is appended to
\* PerFrameFunctionalGroupsSequence and counted in NumberOfFrames.
append_frames(self, items) ==
    [self EXCEPT
        !.PerFrameFunctionalGroupsSequence = @ \o items,
        !.NumberOfFrames = @ + Len(items)]

\* sop.py:903-905 without line 905: the inventory is not updated.
register_segment_unlisted(self, description) ==
    [self EXCEPT
        !.SegmentSequence =
            IF description.SegmentNumber \notin self.segment_inventory
            THEN Append(@, description) ELSE @]

\* sop.py:903-905, the segment joins SegmentSequence and the inventory.
register_segment(self, description) ==
    [self EXCEPT
        !.SegmentSequence =
            IF description.SegmentNumber \notin self.segment_inventory
            THEN Append(@, description) ELSE @,
        !.segment_inventory = @ \cup {description.SegmentNumber}]

\* sop.py:752, the segment number of the i-th turn of the loop
\* (enumerate(described_segment_numbers), i counted from 1 here).
loop_segment_number(segment_descriptions, i) ==
    described_segment_numbers(segment_descriptions)[i]

\* sop.py:752-905, one turn of the loop over the described segments.  acc
\* carries the object (self), the list re-encoded at the end (full), the
\* number of encode_frame calls made so far (encode_calls) and the exception
\* raised, if any.  codec_fail_at = n > 0 makes the n-th call of the external
\* codec made by this add_segments raise.
add_one_segment(c, acc, pixel_array, segment_number, description, plane_positions, index, preserved, codec_fail_at) ==
    LET self == acc.self
        planes == segment_planes(c, pixel_array, segment_number)
        contained == contained_plane_index(planes, index.plane_sort_index)
        bad == {k \in DOMAIN contained :
                    frame_item_raises(c, contained[k], index.plane_sort_index, preserved)}
        added == IF bad = {} THEN Len(contained)
                 ELSE (CHOOSE k \in bad : \A m \in bad : k <= m) - 1
        items == [k \in 1..added |->
                    frame_item(c, segment_number, contained[k], plane_positions,
                               index, preserved)]
        with_frames == append_frames(self, items)
        new_planes == [k \in DOMAIN contained |-> planes[contained[k] + 1]]
        encaps == is_encapsulated(c.TransferSyntaxUID)
        calls == IF encaps THEN Len(contained) ELSE 0
        codec_raises == /\ encaps
                        /\ codec_fail_at > acc.encode_calls
                        /\ codec_fail_at <= acc.encode_calls + calls
        encoded == [k \in DOMAIN new_planes |->
                      encode_frame(new_planes[k], c.TransferSyntaxUID, BitsAllocated(c),
                                   c.Rows, c.Columns)]
        encode_raises == encaps /\ \E k \in DOMAIN encoded : encoded[k].raised # ""
        with_pixels == IF framewise_encoding(c)
                       THEN [with_frames EXCEPT
                                !.PixelData = @ \o encode_pixels_native(c, new_planes)]
                       ELSE with_frames
        full == IF framewise_encoding(c) THEN acc.full
                ELSE IF encaps THEN acc.full \o [k \in DOMAIN encoded |-> encoded[k].value]
                ELSE acc.full \o Flatten(new_planes)
    IN IF bad # {}
       THEN [acc EXCEPT !.self = with_frames,
                        !.raised = "IndexError: list index out of range"]
       ELSE IF codec_raises \/ encode_raises
       THEN [acc EXCEPT !.self = with_frames,
                        !.raised = "codec error"]
       ELSE [acc EXCEPT
                !.self = register_segment(with_pixels, description),
                !.full = full,
                !.encode_calls = @ + calls]

RECURSIVE add_each_segment(_, _, _, _, _, _, _, _, _)
add_each_segment(c, acc, i, pixel_array, segment_descriptions, plane_positions, index, preserved, codec_fail_at) ==
    IF i > Len(segment_descriptions) \/ acc.raised # "" THEN acc
    ELSE add_each_segment(c,
            add_one_segment(c, acc, pixel_array,
                            loop_segment_number(segment_descriptions, i),
                            segment_descriptions[i],
                            plane_positions, index, preserved, codec_fail_at),
            i + 1, pixel_array, segment_descriptions, plane_positions, index,
            preserved, codec_fail_at)

\* sop.py:907-918, after the loop: re-encode if needed, pad to even length,
\* rebuild the LUTs.  (encapsulate() pads every item itself, so an
\* encapsulated PixelData, modelled as its item list, is always even.)
finish_add_segments(c, acc) ==
    LET self == acc.self
        encaps == is_encapsulated(c.TransferSyntaxUID)
        reencoded == IF framewise_encoding(c) THEN self.PixelData
                     ELSE IF encaps THEN acc.full
                     ELSE encode_pixels_native(c, <<acc.full>>)
        padded == IF ~encaps /\ Len(reencoded) % 2 = 1
                  THEN Append(reencoded, PadByte) ELSE reencoded
    IN build_luts(c, [self EXCEPT !.PixelData = padded])

\* Segmentation.add_segments.  plane_positions is [is_None, value].  The
\* result is the exception raised ("" for none) and the object as the call
\* leaves it.
add_segments(c, self, pixel_array_in, segment_descriptions, plane_positions_in, codec_fail_at) ==
    LET checked == check_arguments(c, self, pixel_array_in, segment_descriptions)
        pixel_array == checked.pixel_array
        \* sop.py:649-654
        marked == [self EXCEPT !.SegmentsOverlap =
                      IF self.segment_inventory = {} THEN "NO" ELSE "UNDEFINED"]
        source_plane_positions == c.source_plane_positions
        plane_positions == IF plane_positions_in.is_None THEN source_plane_positions
                           ELSE plane_positions_in.value
        index == get_index_values(c.coordinate_system, plane_positions)
        preserved == are_spatial_locations_preserved(c, plane_positions)
        distinct == dimension_position_values(index.plane_position_values)
        encaps == is_encapsulated(c.TransferSyntaxUID)
        \* sop.py:732-750
        decoded == pixel_array_flat(c, marked.NumberOfFrames, marked.PixelData)
        unpadded == IF /\ framewise_encoding(c)
                       /\ Len(marked.PixelData) =
                            get_expected_length(c, marked.NumberOfFrames) + 1
                    THEN [marked EXCEPT !.PixelData = SubSeq(@, 1, Len(@) - 1)]
                    ELSE marked
        full == IF framewise_encoding(c) \/ Len(marked.PixelData) = 0 THEN <<>>
                ELSE IF encaps THEN marked.PixelData
                ELSE decoded.value
        looped == add_each_segment(c,
                    [self |-> unpadded, full |-> full, encode_calls |-> 0, raised |-> ""],
                    1, pixel_array, segment_descriptions, plane_positions, index,
                    preserved.value, codec_fail_at)
    IN IF checked.raised # ""
       THEN [raised |-> checked.raised, self |-> self]
       ELSE IF pixel_array.shape[1] # Len(plane_positions)
       THEN [raised |-> IF plane_positions_in.is_None
                        THEN "ValueError: Number of frames does not match source"
                        ELSE "ValueError: Number of planes does not match plane positions",
             self |-> marked]
       ELSE IF preserved.raised # ""
       THEN [raised |-> preserved.raised, self |-> marked]
       ELSE IF distinct.raised # ""
       THEN [raised |-> distinct.raised, self |-> marked]
       ELSE IF ~framewise_encoding(c) /\ ~encaps /\ Len(marked.PixelData) > 0
               /\ decoded.raised # ""
       THEN [raised |-> decoded.raised, self |-> marked]
       ELSE IF looped.raised # ""
       THEN [raised |-> looped.raised, self |-> looped.self]
       ELSE finish_add_segments(c, looped)

\* ------------------------------------------------- seg/sop.py: queries
\* Segmentation.number_of_segments and Segmentation.segment_numbers.
number_of_segments(self) == Len(self.SegmentSequence)

segment_numbers(self) == [k \in 1..number_of_segments(self) |-> k]

\* Segmentation.get_segment_description.
get_segment_description(self, segment_number) ==
    IF segment_number < 1 \/ segment_number > number_of_segments(self)
    THEN [raised |-> "IndexError: invalid segment number", value |-> <<>>]
    ELSE [raised |-> "", value |-> self.SegmentSequence[segment_number]]

\* Dataset.pixel_array as a stack of frames of Rows * Columns samples.
Dataset_pixel_array(c, self) ==
    LET flat == pixel_array_flat(c, self.NumberOfFrames, self.PixelData)
        size == c.Rows * c.Columns
    IN [raised |-> flat.raised,
        value |-> IF flat.raised # "" THEN <<>>
                  ELSE [f \in 1..(Len(flat.value) \div size) |->
                          SubSeq(flat.value, (f - 1) * size + 1, f * size)]]

\* sop.py:1548-1551 with the relabel flag ignored: always the ranks.
pixel_value_map_ranked(segment_numbers_in, relabel) ==
    [i \in DOMAIN segment_numbers_in |-> i]

\* sop.py:1548-1551, the label every selected segment is scaled by.
pixel_value_map(segment_numbers_in, relabel) ==
    IF relabel THEN [i \in DOMAIN segment_numbers_in |-> i]
    ELSE segment_numbers_in

\* Segmentation._get_pixels_by_seg_frame.  The result has one entry per row
\* of the matrix: a plane of tuples over the segments, or, combined, a plane
\* of labels.
get_pixels_by_seg_frame(c, self, seg_frames_matrix, segment_numbers_in, combine_segments, relabel) ==
    LET Fail(e) == [raised |-> e, value |-> <<>>]
        entries == Flatten(seg_frames_matrix)
        decoded == Dataset_pixel_array(c, self)
        size == c.Rows * c.Columns
        Sample(out_frm, out_seg, k) ==
            LET seg_frame_num == seg_frames_matrix[out_frm][out_seg]
            IN IF seg_frame_num >= 1 THEN decoded.value[seg_frame_num][k] ELSE 0
        stacked == [out_frm \in DOMAIN seg_frames_matrix |->
                      [k \in 1..size |->
                          [out_seg \in DOMAIN segment_numbers_in |->
                              Sample(out_frm, out_seg, k)]]]
        value_map == pixel_value_map(segment_numbers_in, relabel)
        overlap == \E f \in DOMAIN stacked : \E k \in 1..size : SeqSum(stacked[f][k]) > 1
        max_array == [f \in DOMAIN stacked |->
                        [k \in 1..size |->
                            SetMax({stacked[f][k][i] * value_map[i] :
                                        i \in DOMAIN segment_numbers_in})]]
    IN IF combine_segments /\ c.SegmentationType # "BINARY"
       THEN Fail("ValueError: Cannot combine segments if the segmentation is not binary")
       ELSE IF entries = <<>>
       THEN Fail("ValueError: zero-size array to reduction operation")
       ELSE IF \E i \in DOMAIN entries : entries[i] < -1
       THEN Fail("ValueError: negative values other than -1")
       ELSE IF \E i \in DOMAIN entries : entries[i] > self.NumberOfFrames
       THEN Fail("ValueError: values outside the range of segmentation frames")
       ELSE IF Len(segment_numbers_in) # Len(seg_frames_matrix[1])
       THEN Fail("ValueError: Segment numbers array does not match the shape")
       ELSE IF \E i \in DOMAIN segment_numbers_in :
                   segment_numbers_in[i] < 1 \/ segment_numbers_in[i] > number_of_segments(self)
       THEN Fail("ValueError: Segment numbers array contains invalid values.")
       ELSE IF decoded.raised # ""
       THEN Fail(decoded.raised)
       ELSE IF ~combine_segments
       THEN [raised |-> "", value |-> stacked]
       ELSE IF overlap
       THEN Fail("RuntimeError: Segments cannot be combined because they overlap")
       ELSE [raised |-> "", value |-> max_array]

\* The rows of a LUT that equal a query, as 1-based positions (np.where).
MatchingRows(lut, qry) == {i \in DOMAIN lut : lut[i] = qry}

\* One entry of the segmentation frame matrix, sop.py:1649-1652 and
\* 1710-1713: the position of the only matching row, or -1.
SegFrame(lut, qry) ==
    IF Cardinality(MatchingRows(lut, qry)) = 1
    THEN CHOOSE i \in MatchingRows(lut, qry) : TRUE
    ELSE NO_FRAME_REF_VALUE

\* sop.py:1609-1662, the segmentation frame matrix of the branch indexed by
\* SOP instance UID: the sub-matrix of the LUT has the columns (source
\* instance, segment number); a UID that is not a source leaves its row -1.
seg_frames_by_instance(c, self, source_sop_instance_uids, segs) ==
    LET lut == [i \in DOMAIN self.frame_lut |->
                  <<self.frame_lut[i][2], self.frame_lut[i][1]>>]
    IN [r \in DOMAIN source_sop_instance_uids |->
          [k \in DOMAIN segs |->
              IF get_src_uid_index(c, source_sop_instance_uids[r]) = -1
              THEN NO_FRAME_REF_VALUE
              ELSE SegFrame(lut, <<get_src_uid_index(c, source_sop_instance_uids[r]),
                                   segs[k]>>)]]

\* sop.py:1677-1682, the rows of the LUT of one source instance, with the
\* columns (source frame number, segment number).
lut_of_instance(c, self, sop_instance_uid) ==
    LET src_uid_ind == get_src_uid_index(c, sop_instance_uid)
        of_instance == SelectSeq(self.frame_lut, LAMBDA row : row[2] = src_uid_ind)
    IN [i \in DOMAIN of_instance |-> <<of_instance[i][3], of_instance[i][1]>>]

\* sop.py:1693, src_frm_num in lut[:, 1]: the frame number is looked up in
\* column 1 of the sub-matrix.
frame_is_listed(lut, src_frm_num) == \E i \in DOMAIN lut : lut[i][2] = src_frm_num

\* sop.py:1690-1723, the segmentation frame matrix of the branch indexed by
\* source frame number.
seg_frames_by_frame_number(c, self, sop_instance_uid, frame_numbers, segs) ==
    LET lut == lut_of_instance(c, self, sop_instance_uid)
    IN [r \in DOMAIN frame_numbers |->
          [k \in DOMAIN segs |->
              IF ~frame_is_listed(lut, frame_numbers[r])
              THEN NO_FRAME_REF_VALUE
              ELSE SegFrame(lut, <<frame_numbers[r], segs[k]>>)]]

\* sop.py:1574-1595 with the override applied to every refusal.
source_frame_indexing_error_overridden(self, assert_locations_preserved) ==
    IF self.locations_preserved = "unset"
    THEN "AttributeError: _locations_preserved"
    ELSE IF assert_locations_preserved
    THEN ""
    ELSE IF self.locations_preserved = "None"
    THEN "RuntimeError: image does not specify that spatial locations are preserved"
    ELSE IF self.locations_preserved = "NO"
    THEN "RuntimeError: spatial locations are not preserved"
    ELSE IF ~self.single_source_frame_per_seg_frame
    THEN "RuntimeError: some frames specify multiple source frames"
    ELSE ""

\* sop.py:1574-1595, whether indexing by source frame is permitted: the
\* error raised, "" for none.
source_frame_indexing_error(self, assert_locations_preserved) ==
    IF self.locations_preserved = "unset"
    THEN "AttributeError: _locations_preserved"
    ELSE IF self.locations_preserved = "None" /\ ~assert_locations_preserved
    THEN "RuntimeError: image does not specify that spatial locations are preserved"
    ELSE IF self.locations_preserved = "NO"
    THEN "RuntimeError: spatial locations are not preserved"
    ELSE IF ~self.single_source_frame_per_seg_frame
    THEN "RuntimeError: some frames specify multiple source frames"
    ELSE ""

\* Segmentation.get_pixels_by_source_frame.  source_frame_numbers and
\* segment_numbers_in are None or Given(list).
get_pixels_by_source_frame(c, self, source_sop_instance_uids, source_frame_numbers, segment_numbers_in, combine_segments, relabel, assert_locations_preserved, assert_missing_frames_are_empty) ==
    LET Fail(e) == [raised |-> e, value |-> <<>>]
        segs == IF segment_numbers_in.is_None THEN segment_numbers(self)
                ELSE segment_numbers_in.value
        \* sop.py:1618-1619, columns (source instance, segment number)
        by_instance == [i \in DOMAIN self.frame_lut |->
                          <<self.frame_lut[i][2], self.frame_lut[i][1]>>]
        src_uid_ind == get_src_uid_index(c, source_sop_instance_uids[1])
        by_frame == lut_of_instance(c, self, source_sop_instance_uids[1])
    IN IF source_frame_indexing_error(self, assert_locations_preserved) # ""
       THEN Fail(source_frame_indexing_error(self, assert_locations_preserved))
       ELSE IF segs = <<>>
       THEN Fail("ValueError: Segment numbers may not be empty.")
       ELSE IF source_sop_instance_uids = <<>>
       THEN Fail("ValueError: Source SOP instance UIDs may not be empty.")
       ELSE IF ~self.has_frame_lut
       THEN Fail("AttributeError: _frame_lut")
       ELSE IF source_frame_numbers.is_None
       THEN IF Cardinality(Range(by_instance)) # Len(by_instance)
            THEN Fail("RuntimeError: instances and segment numbers do not uniquely identify frames")
            ELSE IF ~assert_missing_frames_are_empty
                    /\ \E r \in DOMAIN source_sop_instance_uids :
                           get_src_uid_index(c, source_sop_instance_uids[r]) = -1
            THEN Fail("KeyError: SOP Instance UID does not match any referenced source frames")
            ELSE get_pixels_by_seg_frame(c, self,
                    seg_frames_by_instance(c, self, source_sop_instance_uids, segs),
                    segs, combine_segments, relabel)
       ELSE IF Len(source_sop_instance_uids) # 1
       THEN Fail("ValueError: Only a single source SOP instance UID may be specified")
       ELSE IF src_uid_ind = -1
       THEN Fail("KeyError")
       ELSE IF Cardinality(Range(by_frame)) # Len(by_frame)
       THEN Fail("RuntimeError: frame numbers and segment numbers do not uniquely identify frames")
       ELSE IF ~assert_missing_frames_are_empty
               /\ \E r \in DOMAIN source_frame_numbers.value :
                      ~frame_is_listed(by_frame, source_frame_numbers.value[r])
       THEN Fail("KeyError: Source frame number does not match any referenced source frame")
       ELSE get_pixels_by_seg_frame(c, self,
                seg_frames_by_frame_number(c, self, source_sop_instance_uids[1],
                                           source_frame_numbers.value, segs),
                segs, combine_segments, relabel)

\* The instance attributes _build_luts assigns with the frame LUT
\* (sop.py:1190-1198); the list_* queries read others.
LutAttributes == {"_frame_lut", "_lut_seg_col", "_lut_src_instance_col", "_lut_src_frame_col"}

\* Segmentation.list_seg_frames_for_segment_number.  It reads self.frame_lut
\* and self.lut_seg_col; np.where(...)[0] holds 0-based row indices.
list_seg_frames_for_segment_number(self, segment_number) ==
    IF segment_number \notin Range(segment_numbers(self))
    THEN [raised |-> "KeyError: No segment found with specified segment number",
          value |-> <<>>]
    ELSE IF "frame_lut" \notin LutAttributes \/ "lut_seg_col" \notin LutAttributes
    THEN [raised |-> "AttributeError: frame_lut", value |-> <<>>]
    ELSE [raised |-> "",
          value |-> SelectSeq([i \in DOMAIN self.frame_lut |-> i - 1],
                              LAMBDA i : self.frame_lut[i + 1][1] = segment_number)]

\* ------------------------------------------------------------ the objects
\* Plane positions (PlanePositionSequence items).
Patient(x, y, z) == [ImagePositionPatient |-> <<x, y, z>>]

Slide(col, row) ==
    [ ColumnPositionInTotalImagePixelMatrix |-> <<col>>,
      RowPositionInTotalImagePixelMatrix |-> <<row>>,
      XOffsetInSlideCoordinateSystem |-> <<col>>,
      YOffsetInSlideCoordinateSystem |-> <<row>>,
      ZOffsetInSlideCoordinateSystem |-> <<0>> ]

\* What Segmentation.__init__ fixes before its add_segments call
\* (sop.py:211-430): the segmentation type and transfer syntax, the image
\* size, the coordinate system and the source images with their plane
\* positions.
Configurations ==
    { \* a series of three single-frame images, not stored in spatial order
      [ SegmentationType |-> "BINARY", TransferSyntaxUID |-> "ExplicitVRLittleEndian",
        Rows |-> 1, Columns |-> 8, MaximumFractionalValue |-> 255,
        coordinate_system |-> "PATIENT", is_multiframe |-> FALSE,
        source_plane_positions |-> <<Patient(0, 0, 1), Patient(0, 0, 0), Patient(0, 0, 2)>>,
        SourceImageSequence |-> <<"1.2.1", "1.2.2", "1.2.3">>,
        plane_orientation_is_source_orientation |-> TRUE, has_source_images |-> TRUE ],
      \* one multi-frame image of two frames; frames need bit repacking
      [ SegmentationType |-> "BINARY", TransferSyntaxUID |-> "ImplicitVRLittleEndian",
        Rows |-> 1, Columns |-> 2, MaximumFractionalValue |-> 255,
        coordinate_system |-> "PATIENT", is_multiframe |-> TRUE,
        source_plane_positions |-> <<Patient(0, 0, 0), Patient(0, 1, 0)>>,
        SourceImageSequence |-> <<"1.3.1">>,
        plane_orientation_is_source_orientation |-> TRUE, has_source_images |-> TRUE ],
      \* fractional, every frame compressed on its own
      [ SegmentationType |-> "FRACTIONAL", TransferSyntaxUID |-> "JPEG2000Lossless",
        Rows |-> 1, Columns |-> 2, MaximumFractionalValue |-> 255,
        coordinate_system |-> "PATIENT", is_multiframe |-> FALSE,
        source_plane_positions |-> <<Patient(0, 0, 0), Patient(1, 0, 0)>>,
        SourceImageSequence |-> <<"1.4.1", "1.4.2">>,
        plane_orientation_is_source_orientation |-> TRUE, has_source_images |-> TRUE ],
      \* fractional and uncompressed, a tiled slide image of two tiles
      [ SegmentationType |-> "FRACTIONAL", TransferSyntaxUID |-> "ExplicitVRLittleEndian",
        Rows |-> 1, Columns |-> 3, MaximumFractionalValue |-> 255,
        coordinate_system |-> "SLIDE", is_multiframe |-> TRUE,
        source_plane_positions |-> <<Slide(1, 1), Slide(2, 1)>>,
        SourceImageSequence |-> <<"1.5.1">>,
        plane_orientation_is_source_orientation |-> FALSE, has_source_images |-> TRUE ] }

\* The object at sop.py:430, before the constructor's add_segments call.
NewSegmentation ==
    [ SegmentSequence |-> <<>>, segment_inventory |-> {}, NumberOfFrames |-> 0,
      PerFrameFunctionalGroupsSequence |-> <<>>, PixelData |-> <<>>,
      SegmentsOverlap |-> "", frame_lut |-> <<>>, has_frame_lut |-> FALSE,
      single_source_frame_per_seg_frame |-> FALSE, locations_preserved |-> "unset" ]

\* ---------------------------------------------------------------- state
VARIABLES
    c,                                  \* what the constructor fixed
    SegmentSequence,
    segment_inventory,                  \* self._segment_inventory
    NumberOfFrames,
    PerFrameFunctionalGroupsSequence,
    PixelData,
    SegmentsOverlap,                    \* "" while the attribute is not set
    frame_lut,                          \* self._frame_lut
    has_frame_lut,                      \* whether self._frame_lut is set
    single_source_frame_per_seg_frame,  \* self._single_source_frame_per_seg_frame
    locations_preserved,                \* self._locations_preserved
    phase,                              \* "new", "ready" or "aborted"
    codec_errors,                       \* calls the frame codec has failed
    twin,                               \* a second object of the same construction
    argument,                           \* the input a run is about, or None
    returned,                           \* what was returned for it, or None
    last                                \* the last call and how it ended

object == << SegmentSequence, segment_inventory, NumberOfFrames,
             PerFrameFunctionalGroupsSequence, PixelData, SegmentsOverlap,
             frame_lut, has_frame_lut, single_source_frame_per_seg_frame,
             locations_preserved >>

vars == << pack_bits_pad, c, object, phase, codec_errors, twin, argument, returned, last >>

Self ==
    [ SegmentSequence |-> SegmentSequence, segment_inventory |-> segment_inventory,
      NumberOfFrames |-> NumberOfFrames,
      PerFrameFunctionalGroupsSequence |-> PerFrameFunctionalGroupsSequence,
      PixelData |-> PixelData, SegmentsOverlap |-> SegmentsOverlap,
      frame_lut |-> frame_lut, has_frame_lut |-> has_frame_lut,
      single_source_frame_per_seg_frame |-> single_source_frame_per_seg_frame,
      locations_preserved |-> locations_preserved ]

Becomes(self) ==
    /\ SegmentSequence' = self.SegmentSequence
    /\ segment_inventory' = self.segment_inventory
    /\ NumberOfFrames' = self.NumberOfFrames
    /\ PerFrameFunctionalGroupsSequence' = self.PerFrameFunctionalGroupsSequence
    /\ PixelData' = self.PixelData
    /\ SegmentsOverlap' = self.SegmentsOverlap
    /\ frame_lut' = self.frame_lut
    /\ has_frame_lut' = self.has_frame_lut
    /\ single_source_frame_per_seg_frame' = self.single_source_frame_per_seg_frame
    /\ locations_preserved' = self.locations_preserved

\* ---------------------------------------------------------------- inputs
Widen(core, columns) == core \o Zeros(columns - Len(core))

\* An array of n planes of the object's size whose planes hold the given
\* leading samples and zeros elsewhere.
Array(dtype, cores, n, columns) ==
    [ dtype |-> dtype, shape |-> <<n, 1, columns>>,
      data |-> [j \in 1..n |-> Widen(cores[j], columns)] ]

None == [is_None |-> TRUE, value |-> <<>>]
Given(plane_positions) == [is_None |-> FALSE, value |-> plane_positions]

Reverse(s) == [i \in DOMAIN s |-> s[Len(s) + 1 - i]]

\* Pixel arrays of the object's size, one plane per source plane.
TypedArrays(n, columns) ==
    { Array("uint16",  << <<1, 2>>, <<0, 0>>, <<2, 1>> >>, n, columns),
      Array("uint8",   << <<1, 0>>, <<1, 1>>, <<0, 1>> >>, n, columns),
      Array("uint8",   << <<0, 2>>, <<2, 2>>, <<0, 0>> >>, n, columns),
      Array("uint8",   << <<0, 0>>, <<0, 0>>, <<0, 0>> >>, n, columns),
      Array("uint8",   << <<3, 0>>, <<0, 1>>, <<0, 0>> >>, n, columns),
      Array("bool",    << <<1, 0>>, <<0, 1>>, <<1, 1>> >>, n, columns),
      Array("float64", << <<FloatDen, 0>>, <<0, FloatDen>>, <<0, 0>> >>, n, columns),
      Array("float64", << <<2, 0>>, <<1, FloatDen>>, <<0, 0>> >>, n, columns),
      Array("float32", << <<FloatDen + 1, 0>>, <<0, 0>>, <<0, 0>> >>, n, columns),
      Array("int32",   << <<1, 0>>, <<0, 0>>, <<0, 0>> >>, n, columns) }

\* Arrays with another number of planes: a 2-D array, and one plane more
\* than there are source planes.
OtherPlaneCounts(n, columns) ==
    { [dtype |-> "uint8", shape |-> <<1, columns>>, data |-> <<Widen(<<1, 1>>, columns)>>],
      Array("uint8", << <<1, 0>>, <<1, 1>>, <<0, 1>>, <<1, 0>> >>, n + 1, columns) }

\* Arrays without a plane, of the object's size.
ZeroPlaneArrays(columns) ==
    { Array("uint8", <<>>, 0, columns), Array("float64", <<>>, 0, columns) }

\* Arrays add_segments cannot take: a 1-D array and an array of another width.
MisshapenArrays(n, columns) ==
    { [dtype |-> "uint8", shape |-> <<columns>>, data |-> <<>>],
      Array("uint8", << <<1, 0>>, <<1, 1>>, <<0, 1>> >>, n, columns + 1) }

\* Lists of segment numbers offered as segment_descriptions.
Singles == { <<n>> : n \in 1..MaxSegments }

NumberLists == Singles \cup { <<n, n + 1>> : n \in 1..(MaxSegments - 1) }

\* Lists that do not increase by one, and the empty list.
IllFormedLists == { <<>>, <<2, 1>>, <<1, 3>>, <<1, 1>> }

\* plane_positions given explicitly: lists made of the source positions.
PlanePositionLists(source) ==
    { Given(source),
      Given(Reverse(source)),
      Given([i \in DOMAIN source |-> source[1]]),
      Given(<<source[1]>>),
      Given(Append(source, source[1])) }

\* The argument triples offered to add_segments on an object of
\* configuration k.
Arguments(k) ==
    LET n == Len(k.source_plane_positions)
        Triples(arrays, lists, positions) ==
            { [pixel_array |-> a, numbers |-> l, plane_positions |-> p] :
                a \in arrays, l \in lists, p \in positions }
    IN Triples(TypedArrays(n, k.Columns), NumberLists, {None})
       \cup Triples({Array("uint8", << <<1, 0>>, <<1, 1>>, <<0, 1>> >>, n, k.Columns)},
                    IllFormedLists, {None})
       \cup Triples({Array("uint8", << <<1, 0>>, <<1, 1>>, <<0, 1>> >>, n, k.Columns)}
                        \cup OtherPlaneCounts(n, k.Columns),
                    Singles, PlanePositionLists(k.source_plane_positions))
       \cup Triples(OtherPlaneCounts(n, k.Columns), Singles, {None})
       \cup Triples(MisshapenArrays(n, k.Columns), {<<1>>}, {None})
       \cup Triples(ZeroPlaneArrays(k.Columns), Singles, {None, Given(<<>>)})

Descriptions(numbers, label) ==
    [i \in DOMAIN numbers |-> [SegmentNumber |-> numbers[i], SegmentLabel |-> label]]

\* ---------------------------------------------------------------- actions
NoArray == [dtype |-> "", shape |-> <<>>, data |-> <<>>]

\* The record kept of an add_segments call: the exception it raised ("" for
\* none), the segment numbers of its descriptions, whether the object was
\* already constructed, and, for a call that returned, its other arguments.
CallRecord(raised, numbers, constructed, pixel_array, plane_positions) ==
    [ op |-> "add_segments", raised |-> raised, numbers |-> numbers,
      constructed |-> constructed,
      pixel_array |-> IF raised = "" THEN pixel_array ELSE NoArray,
      plane_positions |-> IF raised = "" THEN plane_positions ELSE None ]

\* The state at sop.py:430, whatever the run goes on to do.
Unbuilt ==
    /\ SegmentSequence = <<>>
    /\ segment_inventory = {}
    /\ NumberOfFrames = 0
    /\ PerFrameFunctionalGroupsSequence = <<>>
    /\ PixelData = <<>>
    /\ SegmentsOverlap = ""
    /\ frame_lut = <<>>
    /\ has_frame_lut = FALSE
    /\ single_source_frame_per_seg_frame = FALSE
    /\ locations_preserved = "unset"
    /\ phase = "new"
    /\ codec_errors = 0
    /\ twin = NewSegmentation
    /\ returned = None
    /\ last = CallRecord("", <<>>, FALSE, NoArray, None)

\* The build of pydicom the program meets.  Only bits are packed: for a
\* FRACTIONAL object both builds run the same steps, and one of them stands
\* for both.
Build ==
    pack_bits_pad \in IF c.SegmentationType = "FRACTIONAL" THEN {FALSE} ELSE BOOLEAN

Blank ==
    /\ c \in Configurations
    /\ Build
    /\ Unbuilt

Init ==
    /\ Blank
    /\ argument = None

\* sop.py:250-251 and 317-318: Rows and Columns are read from the
\* constructor's own array, so that array has two or three dimensions and the
\* object's size.
SizedByConstructor(k, pixel_array_in) ==
    /\ Len(pixel_array_in.shape) \in {2, 3}
    /\ pixel_array_in.shape[Len(pixel_array_in.shape) - 1] = k.Rows
    /\ pixel_array_in.shape[Len(pixel_array_in.shape)] = k.Columns

\* One call of add_segments: the constructor's (phase "new", sop.py:431) or
\* a later one on the constructed object.  An exception in the constructor
\* leaves no object to call.
AddSegments(pixel_array_in, numbers, plane_positions, codec_fail_at) ==
    /\ phase \in {"new", "ready"}
    /\ phase = "new" => SizedByConstructor(c, pixel_array_in)
    /\ LET r == add_segments(c, Self, pixel_array_in,
                             Descriptions(numbers, Len(SegmentSequence)),
                             plane_positions, codec_fail_at)
       IN /\ Len(r.self.SegmentSequence) <= MaxSegments
          /\ Becomes(r.self)
          /\ codec_errors' = codec_errors + (IF r.raised = "codec error" THEN 1 ELSE 0)
          /\ codec_errors' <= MaxCodecErrors
          /\ phase' = IF r.raised = "" \/ phase = "ready" THEN "ready" ELSE "aborted"
          /\ last' = CallRecord(r.raised, numbers, phase = "ready",
                                pixel_array_in, plane_positions)
    /\ UNCHANGED << pack_bits_pad, c, twin, argument, returned >>

Next ==
    \E args \in Arguments(c),
       codec_fail_at \in IF is_encapsulated(c.TransferSyntaxUID) THEN 0..2 ELSE {0} :
        AddSegments(args.pixel_array, args.numbers, args.plane_positions, codec_fail_at)

Spec == Init /\ [][Next]_vars

\* ------------------------------------- one call against two calls
\* Label arrays with the values 0..3, every plane one of four kinds.
SplitPlanes == { <<1, 2>>, <<3, 0>>, <<0, 0>>, <<2, 3>> }

SplitArrays(n, columns) ==
    { Array("uint8", cores, n, columns) : cores \in [1..n -> SplitPlanes] }

\* The array with every label outside S set to zero.
Keep(a, S) ==
    [a EXCEPT !.data = [j \in DOMAIN @ |-> [k \in DOMAIN @[j] |->
                            IF @[j][k] \in S THEN @[j][k] ELSE 0]]]

InitSplit ==
    /\ Blank
    /\ argument \in
        { [pixel_array |-> a, plane_positions |-> p] :
            a \in SplitArrays(Len(c.source_plane_positions), c.Columns),
            p \in { None, Given(c.source_plane_positions),
                    Given(Reverse(c.source_plane_positions)) } }

\* The constructor's call with the segments 1 and 2 of the array.
AddFirst ==
    /\ phase = "new"
    /\ LET r == add_segments(c, Self, Keep(argument.pixel_array, {1, 2}),
                             Descriptions(<<1, 2>>, 0), argument.plane_positions, 0)
       IN /\ Becomes(r.self)
          /\ phase' = IF r.raised = "" THEN "first" ELSE "aborted"
          /\ last' = CallRecord(r.raised, <<1, 2>>, FALSE,
                                Keep(argument.pixel_array, {1, 2}),
                                argument.plane_positions)
    /\ UNCHANGED << pack_bits_pad, c, codec_errors, twin, argument, returned >>

\* A second call with segment 3 of the array.
AddSecond ==
    /\ phase = "first"
    /\ LET r == add_segments(c, Self, Keep(argument.pixel_array, {3}),
                             Descriptions(<<3>>, 0), argument.plane_positions, 0)
       IN /\ Becomes(r.self)
          /\ phase' = "ready"
          /\ last' = CallRecord(r.raised, <<3>>, TRUE,
                                Keep(argument.pixel_array, {3}),
                                argument.plane_positions)
    /\ UNCHANGED << pack_bits_pad, c, codec_errors, twin, argument, returned >>

\* The twin's constructor call with the whole array and all three segments.
AddTogether ==
    /\ returned.is_None
    /\ LET r == add_segments(c, twin, argument.pixel_array,
                             Descriptions(<<1, 2, 3>>, 0), argument.plane_positions, 0)
       IN /\ twin' = r.self
          /\ returned' = Given(r.raised)
    /\ UNCHANGED << pack_bits_pad, c, object, phase, codec_errors, argument, last >>

NextSplit == AddFirst \/ AddSecond \/ AddTogether

SpecSplit == InitSplit /\ [][NextSplit]_vars

\* ------------------------------------- get_index_values on its own
\* Longest list of plane positions handed to get_index_values.
MaxPlanes == 3

IndexPositions(coordinate_system) ==
    IF coordinate_system = "SLIDE"
    THEN { Slide(col, row) : col \in 1..2, row \in 1..3 }
    ELSE { Patient(0, y, z) : y \in 0..1, z \in 0..2 }

InitIndex ==
    /\ Blank
    /\ argument \in
        { Given(l) : l \in UNION { [1..n -> IndexPositions(c.coordinate_system)] :
                                      n \in 1..MaxPlanes } }

\* get_index_values called twice on the same list.
GetIndexValues ==
    /\ returned.is_None
    /\ returned' = Given(<< get_index_values(c.coordinate_system, argument.value),
                            get_index_values(c.coordinate_system, argument.value) >>)
    /\ UNCHANGED << pack_bits_pad, c, object, phase, codec_errors, twin, argument, last >>

NextIndex == GetIndexValues

SpecIndex == InitIndex /\ [][NextIndex]_vars

\* ------------------------------------- frames read back by frame matrix
\* Frame matrices offered to _get_pixels_by_seg_frame on an object of n
\* frames: one row of one or two entries from -2 to n + 1, and two rows of
\* one entry.
SegFrameMatrices(n) ==
    { << <<e>> >> : e \in (-2)..(n + 1) }
        \cup { << <<e, f>> >> : e \in (-2)..(n + 1), f \in (-2)..(n + 1) }
        \cup { << <<e>>, <<f>> >> : e \in {-1, 1, n}, f \in {-1, 1, n} }

\* Lists offered as segment_numbers.
SegmentNumberLists == { <<1>>, <<2>>, <<1, 2>>, <<2, 1>>, <<0>>, <<MaxSegments + 1>> }

\* The constructor's add_segments call.
Construct ==
    /\ phase = "new"
    /\ Next

\* One call of _get_pixels_by_seg_frame on the constructed object.
GetPixelsBySegFrame(seg_frames_matrix, segs, combine_segments, relabel) ==
    /\ phase = "ready"
    /\ returned.is_None
    /\ returned' = Given([ seg_frames_matrix |-> seg_frames_matrix,
                           segment_numbers |-> segs,
                           combine_segments |-> combine_segments,
                           relabel |-> relabel,
                           result |-> get_pixels_by_seg_frame(c, Self, seg_frames_matrix,
                                            segs, combine_segments, relabel) ])
    /\ phase' = "queried"
    /\ UNCHANGED << pack_bits_pad, c, object, codec_errors, twin, argument, last >>

NextQuery ==
    \/ Construct
    \/ \E seg_frames_matrix \in SegFrameMatrices(NumberOfFrames),
          segs \in SegmentNumberLists,
          flags \in { <<FALSE, FALSE>>, <<TRUE, FALSE>>, <<TRUE, TRUE>> } :
            GetPixelsBySegFrame(seg_frames_matrix, segs, flags[1], flags[2])

SpecQuery == Init /\ [][NextQuery]_vars

\* ------------------------------------- objects read from a dataset
\* Segmentation.from_dataset (sop.py:969-1067).  The dataset's segments must
\* be numbered 1, 2, ... (1013-1018).  Every item of the Segment Sequence is
\* then handed to SegmentDescription.from_dataset (1026-1028), which the
\* class SegmentDescription of seg/content.py does not have: the attribute
\* lookup raises AttributeError for the first item, so only a dataset with
\* no segment gets past this step.  The conversions of the functional
\* groups (1031-1063) are highdicom.content's and keep every attribute the
\* model reads.  The object takes the dataset's attributes and builds its
\* LUTs.  It has no source images (sop.py:996).
from_dataset(k, dataset) ==
    IF \E i \in DOMAIN dataset.SegmentSequence : dataset.SegmentSequence[i].SegmentNumber # i
    THEN [raised |-> "DicomAttributeError: segments must be consecutive", self |-> NewSegmentation]
    ELSE IF dataset.SegmentSequence # <<>>
    THEN [raised |-> "AttributeError: SegmentDescription has no attribute from_dataset",
          self |-> NewSegmentation]
    ELSE build_luts(k,
            [NewSegmentation EXCEPT
                !.SegmentSequence = <<>>,
                !.segment_inventory = {},
                !.NumberOfFrames = dataset.NumberOfFrames,
                !.PerFrameFunctionalGroupsSequence = dataset.PerFrameFunctionalGroupsSequence,
                !.PixelData = dataset.PixelData,
                !.SegmentsOverlap = dataset.SegmentsOverlap])

\* An item of a frame's Source Image Sequence; preserved is "" when the
\* item has no SpatialLocationsPreserved, frames is <<>> when it has no
\* ReferencedFrameNumber.
SourceReference(uid, frames, preserved) ==
    [ReferencedSOPInstanceUID |-> uid, ReferencedFrameNumber |-> frames,
     SpatialLocationsPreserved |-> preserved]

\* The Derivation Image Sequences a frame of a dataset may carry.
Derivations(k) ==
    LET uid == k.SourceImageSequence[1]
        other == k.SourceImageSequence[Len(k.SourceImageSequence)]
        One(ref) == << [SourceImageSequence |-> <<ref>>] >>
    IN { <<>>,
         One(SourceReference(uid, <<1>>, "YES")),
         One(SourceReference(other, <<2>>, "YES")),
         One(SourceReference(uid, <<1>>, "")),
         One(SourceReference(uid, <<1>>, "NO")),
         One(SourceReference(uid, <<1>>, "REORIENTED_ONLY")),
         One(SourceReference(uid, <<1, 2>>, "YES")),
         One(SourceReference("9.9.9", <<1>>, "YES")),
         << [SourceImageSequence |-> << SourceReference(uid, <<1>>, "YES"),
                                        SourceReference("9.9.8", <<1>>, "YES") >>] >> }

\* A frame of a dataset, of segment 1, every sample 1.
DatasetFrame(k, derivation) ==
    [ DimensionIndexValues |-> <<1, 1>>,
      PlanePosition |-> k.source_plane_positions[1],
      DerivationImageSequence |-> derivation,
      ReferencedSegmentNumber |-> 1 ]

\* The pixel data of n frames whose samples are all 1, as add_segments
\* leaves it.
DatasetPixelData(k, n) ==
    LET planes == [f \in 1..n |-> [s \in 1..(k.Rows * k.Columns) |-> 1]]
        native == encode_pixels_native(k, planes)
    IN IF is_encapsulated(k.TransferSyntaxUID)
       THEN [f \in 1..n |-> encode_frame(planes[f], k.TransferSyntaxUID, BitsAllocated(k),
                                         k.Rows, k.Columns).value]
       ELSE IF Len(native) % 2 = 1 THEN Append(native, PadByte) ELSE native

\* Segmentation datasets of one or two frames: with the described segment
\* 1, with a Segment Sequence of no item, and one whose segment is numbered
\* 2.
Datasets(k) ==
    LET Of(items, numbers) ==
            [ SegmentSequence |-> Descriptions(numbers, 0),
              NumberOfFrames |-> Len(items),
              PerFrameFunctionalGroupsSequence |-> items,
              PixelData |-> DatasetPixelData(k, Len(items)),
              SegmentsOverlap |-> "NO" ]
    IN { Of(<<DatasetFrame(k, d)>>, n) : d \in Derivations(k), n \in { <<1>>, <<>> } }
        \cup { Of(<<DatasetFrame(k, d), DatasetFrame(k, e)>>, n) :
                 d \in Derivations(k), e \in Derivations(k), n \in { <<1>>, <<>> } }
        \cup { Of(<<DatasetFrame(k, <<>>)>>, <<2>>) }

\* from_dataset keeps the source references of the frames but has no source
\* images: with them kept.
from_dataset_sources_kept(k) == [k EXCEPT !.has_source_images = TRUE]

\* sop.py:996, seg._source_images = None: what an object read from a
\* dataset of configuration k has fixed.
from_dataset_sources(k) == [k EXCEPT !.has_source_images = FALSE]

InitLoad ==
    /\ Unbuilt
    /\ c \in { from_dataset_sources(k) : k \in Configurations }
    /\ Build
    /\ argument \in { Given(d) : d \in Datasets(c) }

\* Segmentation.from_dataset(argument); an exception leaves no object.
FromDataset ==
    /\ phase = "new"
    /\ LET r == from_dataset(c, argument.value)
       IN /\ Becomes(r.self)
          /\ phase' = IF r.raised = "" THEN "loaded" ELSE "aborted"
          /\ last' = [last EXCEPT !.op = "from_dataset", !.raised = r.raised]
    /\ UNCHANGED << pack_bits_pad, c, codec_errors, twin, argument, returned >>

\* One call of get_pixels_by_source_frame on the loaded object.
GetPixelsBySourceFrame(uids, frames, segs, combine_segments, relabel, assert_locations_preserved, assert_missing_frames_are_empty) ==
    /\ phase = "loaded"
    /\ returned.is_None
    /\ returned' = Given([ source_sop_instance_uids |-> uids,
                           source_frame_numbers |-> frames,
                           segment_numbers |-> segs,
                           combine_segments |-> combine_segments,
                           assert_locations_preserved |-> assert_locations_preserved,
                           assert_missing_frames_are_empty |-> assert_missing_frames_are_empty,
                           result |-> get_pixels_by_source_frame(c, Self, uids, frames, segs,
                                        combine_segments, relabel,
                                        assert_locations_preserved,
                                        assert_missing_frames_are_empty) ])
    /\ phase' = "queried"
    /\ UNCHANGED << pack_bits_pad, c, object, codec_errors, twin, argument, last >>

\* One call of add_segments on the loaded object.
AddSegmentsLoaded(pixel_array_in, numbers, plane_positions) ==
    /\ phase = "loaded"
    /\ LET r == add_segments(c, Self, pixel_array_in,
                             Descriptions(numbers, Len(SegmentSequence)),
                             plane_positions, 0)
       IN /\ Becomes(r.self)
          /\ last' = CallRecord(r.raised, numbers, TRUE, pixel_array_in, plane_positions)
    /\ phase' = "added"
    /\ UNCHANGED << pack_bits_pad, c, codec_errors, twin, argument, returned >>

NextLoad ==
    \/ FromDataset
    \/ /\ phase = "loaded"
       /\ \E args \in Arguments(c) :
            AddSegmentsLoaded(args.pixel_array, args.numbers, args.plane_positions)
    \/ \E uids \in { <<c.SourceImageSequence[1]>>, <<"9.9.9">>,
                     <<c.SourceImageSequence[1], c.SourceImageSequence[1]>> },
          frames \in { None, Given(<<1>>) },
          flags \in [1..3 -> BOOLEAN] :
            GetPixelsBySourceFrame(uids, frames, None, flags[1], FALSE, flags[2], flags[3])

SpecLoad == InitLoad /\ [][NextLoad]_vars

\* ------------------------------------- frame.py: the frame codec on its own
\* The largest error, per sample, that the model lets lossy compression make.
\* At quality 95 the quantisation steps of the high frequencies reach 12, and
\* samples next to a sharp edge are read back off by 3 and more.
JpegTolerance == 4

\* numpy reshape of a flat array to (rows, columns), row-major.
Reshape(flat, rows, columns) ==
    [r \in 1..rows |-> [k \in 1..columns |-> flat[(r - 1) * columns + k]]]

\* What the JPEG baseline codec (Pillow 'jpeg' at quality 95, frame.py:126-131)
\* reconstructs of a sample: the codec is lossy, the sample read back may
\* differ from the sample written by the codec's error at that sample.
jpeg_reconstructed(sample, codec_error) ==
    IF sample + codec_error < 0 THEN 0
    ELSE IF sample + codec_error > 255 THEN 255
    ELSE sample + codec_error

\* frame.decode_frame for a monochrome frame: a one-frame dataset is built
\* around the value and its pixel_array returned.  codec_error holds, for
\* every sample, the error the external lossy codec makes at it: the error
\* depends on the sample's position and its neighbours, and the model lets
\* the errors of the samples differ.  The lossless codecs give back the
\* samples they were given.
decode_frame(value, transfer_syntax_uid, rows, columns, bits_allocated, codec_error) ==
    IF is_encapsulated(transfer_syntax_uid)
    THEN IF transfer_syntax_uid = "JPEGBaseline"
         THEN [raised |-> "",
               value |-> Reshape([k \in DOMAIN value.samples |->
                                     jpeg_reconstructed(value.samples[k], codec_error[k])],
                                 rows, columns)]
         ELSE [raised |-> "", value |-> Reshape(value.samples, rows, columns)]
    ELSE IF bits_allocated = 1
    THEN IF 8 * Len(value) < rows * columns
         THEN [raised |-> "ValueError: pixel data too short", value |-> <<>>]
         ELSE [raised |-> "",
               value |-> Reshape(SubSeq(unpack_bits(value), 1, rows * columns),
                                 rows, columns)]
    ELSE IF Len(value) < rows * columns
         THEN [raised |-> "ValueError: pixel data too short", value |-> <<>>]
         ELSE [raised |-> "", value |-> Reshape(SubSeq(value, 1, rows * columns), rows, columns)]

\* All arrays of the given shape over the given sample values.
Planes(rows, columns, samples) ==
    { Reshape(flat, rows, columns) : flat \in [1..(rows * columns) -> samples] }

\* Sample planes offered to the codec: bit planes to be bit-packed, whose
\* size is or is not a multiple of 8, and planes of 8-bit samples.
BitPlanes ==
    Planes(1, 8, {0, 1}) \cup Planes(2, 2, {0, 1}) \cup Planes(1, 3, {0, 1})
        \cup { Reshape(<<1, 0, 0, 0>> \o flat, 2, 4) : flat \in [1..4 -> {0, 1}] }

BytePlanes == Planes(2, 2, {0, 1, 127, 255}) \cup Planes(1, 3, {0, 128, 255})

\* The planes handed to the lossy codec: the planes of one row, and planes
\* of two rows with sharp edges.
JpegPlanes ==
    Planes(1, 3, {0, 128, 255})
        \cup { <<<<1, 127>>, <<255, 1>>>>, <<<<0, 255>>, <<255, 0>>>>,
               <<<<1, 255>>, <<255, 127>>>> }

\* The errors the codec of a transfer syntax may make on n samples.
CodecErrors(transfer_syntax_uid, n) ==
    IF transfer_syntax_uid = "JPEGBaseline"
    THEN [1..n -> (0 - JpegTolerance)..JpegTolerance]
    ELSE {Zeros(n)}

CodecInputs ==
    { [array |-> a, bits_allocated |-> 1, transfer_syntax_uid |-> t] :
        a \in BitPlanes,
        t \in {"ExplicitVRLittleEndian", "ImplicitVRLittleEndian", "JPEGLSLossless"} }
    \cup
    { [array |-> a, bits_allocated |-> 8, transfer_syntax_uid |-> t] :
        a \in BytePlanes,
        t \in {"ExplicitVRLittleEndian", "ImplicitVRLittleEndian",
               "JPEG2000Lossless", "RLELossless", "JPEGLSLossless"} }
    \cup
    { [array |-> a, bits_allocated |-> 8, transfer_syntax_uid |-> "JPEGBaseline"] :
        a \in JpegPlanes }

\* What a caller may pass to Segmentation.__init__ as segmentation_type,
\* transfer_syntax_uid and max_fractional_value, with the source images of
\* the configurations above.
ConstructorArguments ==
    { [k EXCEPT !.SegmentationType = s, !.TransferSyntaxUID = t,
                !.MaximumFractionalValue = m] :
        k \in Configurations,
        s \in {"BINARY", "FRACTIONAL"},
        t \in {"ExplicitVRLittleEndian", "JPEG2000Lossless", "JPEGBaseline"},
        m \in {1, 100, 255, 256, 257} }

\* A run of the codec alone constructs no Segmentation.
NoSegmentation == [SegmentationType |-> "", TransferSyntaxUID |-> ""]

InitCodec ==
    /\ Unbuilt
    /\ \/ c = NoSegmentation /\ argument \in { Given(i) : i \in CodecInputs }
       \/ c \in ConstructorArguments /\ argument = None
    /\ Build

\* encode_frame(array, ...): what it raised and the bytes it returned.
EncodeFrame ==
    /\ phase = "new"
    /\ ~argument.is_None
    /\ LET i == argument.value
           r == encode_frame(Flatten(i.array), i.transfer_syntax_uid, i.bits_allocated,
                             Len(i.array), Len(i.array[1]))
       IN /\ returned' = Given(r)
          /\ phase' = IF r.raised = "" THEN "encoded" ELSE "aborted"
          /\ last' = [op |-> "encode_frame", raised |-> r.raised, array |-> <<>>]
    /\ UNCHANGED << pack_bits_pad, c, object, codec_errors, twin, argument >>

\* decode_frame(value, ...) of the bytes encode_frame returned.
DecodeFrame(codec_error) ==
    /\ phase = "encoded"
    /\ LET i == argument.value
           r == decode_frame(returned.value.value, i.transfer_syntax_uid,
                             Len(i.array), Len(i.array[1]), i.bits_allocated, codec_error)
       IN /\ last' = [op |-> "decode_frame", raised |-> r.raised, array |-> r.value]
          /\ phase' = "decoded"
    /\ UNCHANGED << pack_bits_pad, c, object, codec_errors, twin, argument, returned >>

\* sop.py:250-251 and 317-318: a 2-D array becomes a stack of one plane, and
\* Rows and Columns are the second and third extent of the constructor's
\* array, whatever the size of the source images.  An array of one dimension
\* has no second extent, and pixel_array.shape[1] raises IndexError.
init_size(k, pixel_array_in) ==
    LET shape == as_3d(pixel_array_in).shape
    IN IF Len(shape) < 3
       THEN [raised |-> "IndexError: tuple index out of range", c |-> k]
       ELSE [raised |-> "", c |-> [k EXCEPT !.Rows = shape[2], !.Columns = shape[3]]]

\* Segmentation.__init__ in the order of its steps: the transfer syntax is
\* checked (sop.py:243), the size is read from the array (317-318), the
\* segmentation type and max_fractional_value are checked (326-355), and
\* add_segments is called on the empty object (431).  op tells which of the
\* two methods raised; c is what the constructor has fixed.
Segmentation_init(k, self, pixel_array_in, segment_descriptions, plane_positions) ==
    LET sized == init_size(k, pixel_array_in)
        added == add_segments(sized.c, self, pixel_array_in, segment_descriptions,
                              plane_positions, 0)
    IN IF init_transfer_syntax_error(k) # ""
       THEN [op |-> "__init__", raised |-> init_transfer_syntax_error(k), c |-> k, self |-> self]
       ELSE IF sized.raised # ""
       THEN [op |-> "__init__", raised |-> sized.raised, c |-> k, self |-> self]
       ELSE IF init_checks(k) # ""
       THEN [op |-> "__init__", raised |-> init_checks(k), c |-> k, self |-> self]
       ELSE [op |-> "add_segments", raised |-> added.raised, c |-> sized.c,
             self |-> added.self]

\* Segmentation(...): an exception leaves no object to call.
Constructor(pixel_array_in, numbers, plane_positions) ==
    /\ phase = "new"
    /\ argument.is_None
    /\ LET r == Segmentation_init(c, Self, pixel_array_in,
                                  Descriptions(numbers, Len(SegmentSequence)),
                                  plane_positions)
       IN /\ c' = r.c
          /\ Becomes(r.self)
          /\ phase' = IF r.raised = "" THEN "ready" ELSE "aborted"
          /\ last' = IF r.op = "__init__"
                     THEN [op |-> "__init__", raised |-> r.raised]
                     ELSE CallRecord(r.raised, numbers, FALSE, pixel_array_in,
                                     plane_positions)
    /\ UNCHANGED << pack_bits_pad, codec_errors, twin, argument, returned >>

\* Planes of the object's size handed to _encode_pixels: one, or two.
PlaneStacks(k) ==
    LET p == Widen(<<1>>, k.Columns)
        q == Widen(<<0, 1>>, k.Columns)
    IN { <<p>>, <<q>>, <<p, q>>, <<q, q>> }

\* _encode_pixels(planes) on the constructed object.
EncodePixels(planes) ==
    /\ phase = "ready"
    /\ returned' = Given(encode_pixels(c, planes))
    /\ phase' = "encoded pixels"
    /\ last' = [op |-> "_encode_pixels", raised |-> encode_pixels(c, planes).raised,
                planes |-> planes]
    /\ UNCHANGED << pack_bits_pad, c, object, codec_errors, twin, argument >>

NextCodec ==
    \/ EncodeFrame
    \/ /\ phase = "encoded"
       /\ \E codec_error \in CodecErrors(argument.value.transfer_syntax_uid,
                                          Len(Flatten(argument.value.array))) :
            DecodeFrame(codec_error)
    \/ /\ argument.is_None
       /\ phase = "new"
       /\ \E args \in Arguments(c) :
            Constructor(args.pixel_array, args.numbers, args.plane_positions)
    \/ /\ phase = "ready"
       /\ \E planes \in PlaneStacks(c) : EncodePixels(planes)

SpecCodec == InitCodec /\ [][NextCodec]_vars

\* ---------------------------------------------------------------- claims
\* What a step's add_segments call was given, read from its record.
CallArray == last'.pixel_array
CallNumbers == last'.numbers
CallPositions ==
    IF last'.plane_positions.is_None THEN c.source_plane_positions
    ELSE last'.plane_positions.value

\* The frames a step added, and their decoded samples.
NewFrames == (NumberOfFrames + 1)..(NumberOfFrames')
DecodedAfter == Dataset_pixel_array(c, Self').value

Positive(a) == {v \in Range(Flatten(a.data)) : v > 0}

\* The mask the described behaviour gives segment number d of array a:
\* the pixels equal to d, or every positive pixel when the positive values
\* are exactly {1} and one descriptor was given.
ExpectedPlanes(a, numbers, d) ==
    [j \in DOMAIN a.data |-> [k \in DOMAIN a.data[j] |->
        IF Positive(a) = {1} /\ Len(numbers) = 1
        THEN (IF a.data[j][k] > 0 THEN 1 ELSE 0)
        ELSE (IF a.data[j][k] = d THEN 1 ELSE 0)]]

NonZero(plane) == [k \in DOMAIN plane |-> IF plane[k] > 0 THEN 1 ELSE 0]

LexLeq(a, b) == a = b \/ LexLess(a, b)

\* The query of the round trip: all source planes in their original order,
\* all segments, combined.
QueryAllSourcePlanes ==
    get_pixels_by_source_frame(
        c, Self, c.SourceImageSequence,
        IF c.is_multiframe
        THEN Given([i \in DOMAIN c.source_plane_positions |-> i])
        ELSE None,
        None, TRUE, FALSE, FALSE, TRUE)

\* The object holds exactly what its constructor was given: a label array
\* of unsigned integers with at least one stored frame, default positions.
BuiltFromLabelArray ==
    /\ phase = "ready"
    /\ ~last.constructed
    /\ last.raised = ""
    /\ last.numbers # <<>>
    /\ c.SegmentationType = "BINARY"
    /\ last.pixel_array.dtype \in {"uint8", "uint16"}
    /\ last.plane_positions.is_None
    /\ NumberOfFrames > 0

\* C1: a BINARY object built from an unsigned-integer label array with
\* default plane positions gives the array back when all source planes are
\* queried in their original order with all segments combined, for a series
\* (by SOP instance UID) and for a multi-frame image (by frame numbers).
RoundTripThroughObject ==
    BuiltFromLabelArray =>
        QueryAllSourcePlanes = [raised |-> "", value |-> last.pixel_array.data]

\* The numbering rules as the description states them.
AscendingByOne(numbers) ==
    \A i \in 1..(Len(numbers) - 1) : numbers[i + 1] = numbers[i] + 1

NextSegmentNumber ==
    IF segment_inventory = {} THEN 1 ELSE SetMax(segment_inventory) + 1

NumberingErrors ==
    { "ValueError: Segment descriptions must be monotonically increasing by 1",
      "ValueError: unexpected first segment number" }

\* C2: a call whose segment numbers do not ascend by exactly 1, or do not
\* start at max(existing) + 1 (1 for none), raises and adds no segment and no
\* frame; a call that follows both rules is not stopped by the numbering check.
NumberingIsEnforced ==
    [][ CallNumbers # <<>> =>
          IF AscendingByOne(CallNumbers) /\ CallNumbers[1] = NextSegmentNumber
          THEN last'.raised \notin NumberingErrors
          ELSE /\ last'.raised # ""
               /\ SegmentSequence' = SegmentSequence
               /\ segment_inventory' = segment_inventory
               /\ NumberOfFrames' = NumberOfFrames
               /\ PerFrameFunctionalGroupsSequence' = PerFrameFunctionalGroupsSequence
      ]_vars

\* A gapped list was rejected by an object that already holds a segment, and
\* the object still holds just that segment.
NumberingWitness ==
    /\ last.numbers = <<1, 3>>
    /\ last.raised = "ValueError: Segment descriptions must be monotonically increasing by 1"
    /\ Len(SegmentSequence) = 1
    /\ NumberOfFrames > 0

DenseNumbering ==
    /\ segment_inventory = 1..Len(SegmentSequence)
    /\ \A k \in 1..Len(SegmentSequence) : SegmentSequence[k].SegmentNumber = k
    /\ \A k \in 0..(MaxSegments + 1) :
          IF k \in 1..Len(SegmentSequence)
          THEN get_segment_description(Self, k) =
                  [raised |-> "", value |-> SegmentSequence[k]]
          ELSE get_segment_description(Self, k).raised =
                  "IndexError: invalid segment number"

\* C3: after every add_segments call the inventory is {1..n} for the n
\* stored descriptors, the k-th descriptor has number k, stored descriptors
\* are neither replaced nor removed, and get_segment_description(k) returns
\* descriptor k for 1 <= k <= n and raises IndexError otherwise.
SegmentsAreDenseAndKept ==
    [][ /\ DenseNumbering'
        /\ Len(SegmentSequence') >= Len(SegmentSequence)
        /\ SubSeq(SegmentSequence', 1, Len(SegmentSequence)) = SegmentSequence
      ]_vars

\* Two calls have stored a descriptor each, and a later call has failed.
DenseWitness ==
    /\ Len(SegmentSequence) = 2
    /\ SegmentSequence[1].SegmentLabel # SegmentSequence[2].SegmentLabel
    /\ last.raised # ""
    /\ last.constructed

ValidationErrors ==
    { "ValueError: Pixel array must be a 2D or 3D array.",
      "ValueError: wrong number of rows and columns",
      "ValueError: Segment descriptions must be monotonically increasing by 1",
      "ValueError: unexpected first segment number",
      "ValueError: Pixel array contains segments that lack descriptions.",
      "ValueError: Floating point values must be in the range [0, 1].",
      "ValueError: provide only a single segment description",
      "ValueError: values must be either 0.0 or 1.0",
      "TypeError: Pixel array has an invalid data type.",
      "ValueError: Number of frames does not match source",
      "ValueError: Number of planes does not match plane positions" }

\* C4: a call on a constructed object that fails on a validation error
\* leaves SegmentSequence, the inventory, NumberOfFrames, the per-frame
\* items, PixelData, SegmentsOverlap and the frame LUT as they were.
ValidationFailureChangesNothing ==
    [][ (phase = "ready" /\ last'.raised \in ValidationErrors) => object' = object ]_vars

\* C5: a call on a constructed object that fails after validation, in the
\* frame codec or while resolving a plane's indices, commits nothing:
\* NumberOfFrames, the per-frame items, SegmentSequence, the inventory and
\* PixelData with its pad byte are as they were.
LateFailureCommitsNothing ==
    [][ (phase = "ready"
            /\ last'.raised \in {"codec error", "IndexError: list index out of range"})
        => /\ NumberOfFrames' = NumberOfFrames
           /\ PerFrameFunctionalGroupsSequence' = PerFrameFunctionalGroupsSequence
           /\ SegmentSequence' = SegmentSequence
           /\ segment_inventory' = segment_inventory
           /\ PixelData' = PixelData
      ]_vars

\* C6: after every add_segments call that returned, the frame LUT exists and
\* has one row per stored frame, row i carrying the segment number of frame i.
FrameLutCoversEveryFrame ==
    (phase = "ready" /\ last.raised = "" /\ last.numbers # <<>>) =>
        /\ has_frame_lut
        /\ Len(frame_lut) = NumberOfFrames
        /\ \A i \in 1..NumberOfFrames :
              frame_lut[i][1] = PerFrameFunctionalGroupsSequence[i].ReferencedSegmentNumber

\* C7: for boolean and unsigned-integer input at distinct plane positions,
\* on an object no codec failure has touched, the frames a call stores for
\* each of its descriptors hold exactly the pixels equal to the descriptor's
\* number (every positive pixel when the positive values are {1} and one
\* descriptor is given), whatever the number of descriptors.
FramesHoldTheirSegment ==
    [][ ( /\ last'.raised = ""
          /\ codec_errors = 0
          /\ CallNumbers # <<>>
          /\ CallArray.dtype \in IntegerDtypes
          /\ Cardinality(Range(CallPositions)) = Len(CallPositions) )
        => { << PerFrameFunctionalGroupsSequence'[i].ReferencedSegmentNumber,
                PerFrameFunctionalGroupsSequence'[i].PlanePosition,
                NonZero(DecodedAfter[i]) >> : i \in NewFrames }
           = { << d, CallPositions[j], ExpectedPlanes(CallArray, CallNumbers, d)[j] >> :
                  d \in Range(CallNumbers), j \in DOMAIN CallArray.data }
             \ { << d, CallPositions[j], Zeros(c.Rows * c.Columns) >> :
                  d \in Range(CallNumbers), j \in DOMAIN CallArray.data }
      ]_vars

FrameOrder(frames) ==
    [i \in DOMAIN frames |->
        << frames[i].ReferencedSegmentNumber, frames[i].PlanePosition,
           frames[i].DerivationImageSequence >>]

BothWaysDone ==
    /\ phase = "ready"
    /\ last.raised = ""
    /\ ~returned.is_None
    /\ returned.value = ""

\* C8: segments 1 and 2 added by one call and segment 3 by a second call
\* leave the same frame order (segment number, plane position and source
\* reference of every frame), the same SegmentSequence and the same frame
\* LUT as one call adding 1, 2 and 3 with the same positions and pixels.
SplitCallsAgreeWithOneCall ==
    BothWaysDone =>
        /\ FrameOrder(PerFrameFunctionalGroupsSequence)
              = FrameOrder(twin.PerFrameFunctionalGroupsSequence)
        /\ SegmentSequence = twin.SegmentSequence
        /\ has_frame_lut = twin.has_frame_lut
        /\ frame_lut = twin.frame_lut

\* Both ways are done, every one of the three segments has frames, and the
\* frame LUT was built.
SplitWitness ==
    /\ BothWaysDone
    /\ has_frame_lut
    /\ { frame_lut[i][1] : i \in DOMAIN frame_lut } = {1, 2, 3}
    /\ NumberOfFrames > 3

\* C9: for every segment a call adds, the frames stored are as many as the
\* segment's planes with a non-zero sample (an all-zero plane adds nothing),
\* and they follow the sorted plane order.
FramesAreTheNonEmptyPlanes ==
    [][ ( /\ last'.raised = ""
          /\ CallNumbers # <<>>
          /\ CallArray.dtype \in {"uint8", "uint16"} )
        => \A d \in Range(CallNumbers) :
              LET mine == SelectSeq([i \in 1..(NumberOfFrames' - NumberOfFrames) |->
                                        PerFrameFunctionalGroupsSequence'[NumberOfFrames + i]],
                                    LAMBDA f : f.ReferencedSegmentNumber = d)
                  planes == ExpectedPlanes(CallArray, CallNumbers, d)
              IN /\ Len(mine) = Cardinality({j \in DOMAIN planes : SeqSum(planes[j]) > 0})
                 /\ \A i \in 1..(Len(mine) - 1) :
                       LexLeq(Flatten(PositionValues(c.coordinate_system,
                                                     mine[i].PlanePosition)),
                              Flatten(PositionValues(c.coordinate_system,
                                                     mine[i + 1].PlanePosition)))
      ]_vars

\* C10: the sort index get_index_values returns is a permutation of the
\* plane indices 0..n-1, ordered by the planes' position values with planes
\* at equal positions in input order, and a second call returns the same.
SortIndexIsAStablePermutation ==
    ~returned.is_None =>
        LET idx == returned.value[1].plane_sort_index
            n == Len(argument.value)
            key(j) == Flatten(PositionValues(c.coordinate_system, argument.value[j + 1]))
        IN /\ Len(idx) = n
           /\ Range(idx) = 0..(n - 1)
           /\ \A a, b \in DOMAIN idx :
                 a < b => \/ LexLess(key(idx[a]), key(idx[b]))
                          \/ key(idx[a]) = key(idx[b]) /\ idx[a] < idx[b]
           /\ returned.value[2] = returned.value[1]

\* The sort key of a raster scan over the tiles of a slide: row position in
\* the total pixel matrix, then column position, then the X, Y, Z offsets.
RasterKey(p) ==
    p["RowPositionInTotalImagePixelMatrix"]
        \o p["ColumnPositionInTotalImagePixelMatrix"]
        \o p["XOffsetInSlideCoordinateSystem"]
        \o p["YOffsetInSlideCoordinateSystem"]
        \o p["ZOffsetInSlideCoordinateSystem"]

\* C11: for the SLIDE coordinate system and pairwise distinct positions,
\* the sort index of get_index_values lists the planes in raster order:
\* by row position, then column position, then the X, Y, Z offsets.
SlideOrderIsARasterScan ==
    ( /\ ~returned.is_None
      /\ c.coordinate_system = "SLIDE"
      /\ Cardinality(Range(argument.value)) = Len(argument.value) )
    => LET idx == returned.value[1].plane_sort_index
       IN \A a, b \in DOMAIN idx :
             a < b => LexLess(RasterKey(argument.value[idx[a] + 1]),
                              RasterKey(argument.value[idx[b] + 1]))

\* Arguments offered to the queries: lists of source SOP instance UIDs (one
\* of them not a source), of source frame numbers and of segment numbers.
QueryUidLists ==
    LET uids == Range(c.SourceImageSequence) \cup {"9.9.9"}
    IN { <<u>> : u \in uids } \cup { <<u, v>> : u \in uids, v \in uids }

QueryFrameLists ==
    { <<f>> : f \in 1..3 } \cup { <<f, g>> : f \in 1..3, g \in 1..3 }

QuerySegmentLists == { <<1>>, <<2>>, <<1, 2>>, <<2, 1>> }

\* The rows of the frame LUT (1-based frame numbers) of a source instance
\* and a segment, and of a source instance, a source frame and a segment.
FramesOfInstance(uid, seg) ==
    { f \in DOMAIN frame_lut :
        /\ get_src_uid_index(c, uid) # -1
        /\ frame_lut[f][2] = get_src_uid_index(c, uid)
        /\ frame_lut[f][1] = seg }

FramesOfSourceFrame(uid, frm, seg) ==
    { f \in FramesOfInstance(uid, seg) : frame_lut[f][3] = frm }

\* An entry of the frame matrix names the frame of F, or is -1 for none.
NamesTheFrame(entry, F) ==
    IF F = {} THEN entry = NO_FRAME_REF_VALUE ELSE entry \in F

\* The uniqueness checks of the two branches pass (sop.py:1622, 1684).
InstancesIdentifyFrames ==
    Cardinality({ <<frame_lut[i][2], frame_lut[i][1]>> : i \in DOMAIN frame_lut })
        = Len(frame_lut)

SourceFramesIdentifyFrames(uid) ==
    Cardinality(Range(lut_of_instance(c, Self, uid))) = Len(lut_of_instance(c, Self, uid))

\* C12: with the frame LUT built and the branch's uniqueness check passed,
\* the frame matrix entry for (source r, segment k) is the 1-based number of
\* the stored frame whose LUT row has that source and that segment when
\* there is one, and -1 exactly when there is none, in the branch indexed by
\* SOP instance UID and in the branch indexed by source frame number.
FrameMatrixNamesTheFrames ==
    (phase = "ready" /\ has_frame_lut) =>
        \A segs \in QuerySegmentLists :
            /\ InstancesIdentifyFrames =>
                \A uids \in QueryUidLists :
                  LET m == seg_frames_by_instance(c, Self, uids, segs)
                  IN \A r \in DOMAIN uids, k \in DOMAIN segs :
                        NamesTheFrame(m[r][k], FramesOfInstance(uids[r], segs[k]))
            /\ SourceFramesIdentifyFrames(c.SourceImageSequence[1]) =>
                \A frms \in QueryFrameLists :
                  LET uid == c.SourceImageSequence[1]
                      m == seg_frames_by_frame_number(c, Self, uid, frms, segs)
                  IN \A r \in DOMAIN frms, k \in DOMAIN segs :
                        NamesTheFrame(m[r][k],
                                      FramesOfSourceFrame(uid, frms[r], segs[k]))

\* The 1-based numbers of the stored frames of segment s, ascending.
FramesOfSegment(s) ==
    SelectSeq([f \in 1..NumberOfFrames |-> f],
              LAMBDA f : PerFrameFunctionalGroupsSequence[f].ReferencedSegmentNumber = s)

\* C13: on an object whose frame LUT covers its frames,
\* list_seg_frames_for_segment_number(s) returns the 1-based numbers of the
\* stored frames of segment s in ascending order for s in
\* 1..number_of_segments, and raises KeyError for any other s.
SegmentFramesAreListed ==
    (phase = "ready" /\ has_frame_lut /\ Len(frame_lut) = NumberOfFrames) =>
        \A s \in 0..(MaxSegments + 1) :
            IF s \in 1..number_of_segments(Self)
            THEN list_seg_frames_for_segment_number(Self, s)
                    = [raised |-> "", value |-> FramesOfSegment(s)]
            ELSE list_seg_frames_for_segment_number(Self, s).raised
                    = "KeyError: No segment found with specified segment number"

\* The call of _get_pixels_by_seg_frame a run has made, and what it selected:
\* the stored frame a matrix cell names, all zeros for a cell without one.
Query == returned.value

Queried == phase = "queried"

SelectedPlane(r, i) ==
    IF Query.seg_frames_matrix[r][i] >= 1
    THEN Dataset_pixel_array(c, Self).value[Query.seg_frames_matrix[r][i]]
    ELSE Zeros(c.Rows * c.Columns)

\* The arguments are the ones the description admits.
EntriesAreFrames ==
    \A r \in DOMAIN Query.seg_frames_matrix : \A i \in DOMAIN Query.seg_frames_matrix[r] :
        \/ Query.seg_frames_matrix[r][i] = -1
        \/ Query.seg_frames_matrix[r][i] \in 1..NumberOfFrames

SegmentNumbersFit ==
    /\ Len(Query.segment_numbers) = Len(Query.seg_frames_matrix[1])
    /\ \A i \in DOMAIN Query.segment_numbers :
          Query.segment_numbers[i] \in 1..number_of_segments(Self)

\* The entries pass the range checks of sop.py:1487-1496: none below -1,
\* none above NumberOfFrames.  An entry 0 passes and selects no frame
\* (sop.py:1525), like -1.
EntriesPassTheRangeChecks ==
    \A r \in DOMAIN Query.seg_frames_matrix : \A i \in DOMAIN Query.seg_frames_matrix[r] :
        Query.seg_frames_matrix[r][i] \in (-1)..NumberOfFrames

\* A call that combines the segments of a BINARY object and passes every
\* argument check of sop.py:1473-1511.
CombiningBinary ==
    /\ Queried
    /\ Query.combine_segments
    /\ c.SegmentationType = "BINARY"
    /\ EntriesPassTheRangeChecks
    /\ SegmentNumbersFit

\* The object stores at least one frame, so that its pixel_array can be read.
StoresFrames == NumberOfFrames > 0

SelectedOverlap ==
    \E r \in DOMAIN Query.seg_frames_matrix : \E k \in 1..(c.Rows * c.Columns) :
        Cardinality({ i \in DOMAIN Query.segment_numbers : SelectedPlane(r, i)[k] > 0 }) > 1

\* The value a pixel of the i-th selected segment gets.
LabelOf(i) == IF Query.relabel THEN i ELSE Query.segment_numbers[i]

\* The selected segments with a positive pixel in the output.
SegmentsInOutput ==
    { i \in DOMAIN Query.segment_numbers :
        \E r \in DOMAIN Query.seg_frames_matrix : \E k \in 1..(c.Rows * c.Columns) :
            SelectedPlane(r, i)[k] > 0 }

MaximumOf(array) == SetMax({0} \cup Range(Flatten(array)))

\* C14 as stated: without overlap the maximum of the label map equals
\* len(segment_numbers) (relabel) or the largest segment number selected.
CombinedMaximumIsTheLastLabel ==
    (CombiningBinary /\ StoresFrames /\ ~SelectedOverlap) =>
        /\ Query.result.raised = ""
        /\ MaximumOf(Query.result.value) =
              (IF Query.relabel THEN Len(Query.segment_numbers)
               ELSE SetMax(Range(Query.segment_numbers)))

\* C14: for every call that combines the segments of a BINARY object and
\* passes the argument checks, on an object that stores at least one frame
\* the call fails with the overlap error iff some output pixel is positive
\* in more than one selected segment; otherwise the result is a label map,
\* 0 for background, whose pixels of segment_numbers[i] have the value i+1
\* (relabel) or segment_numbers[i], and whose maximum is the largest label
\* of a selected segment that has a positive pixel in the output (0 when
\* there is none).  On an object that stores no frame the call raises when
\* it reads pixel_array (sop.py:1514-1522) and returns no array.
CombinedLabelMap ==
    CombiningBinary =>
        IF ~StoresFrames
        THEN Query.result.raised \notin {"", "RuntimeError: Segments cannot be combined because they overlap"}
             /\ Query.result.value = <<>>
        ELSE IF SelectedOverlap
        THEN Query.result.raised = "RuntimeError: Segments cannot be combined because they overlap"
        ELSE /\ Query.result.raised = ""
             /\ \A r \in DOMAIN Query.seg_frames_matrix : \A k \in 1..(c.Rows * c.Columns) :
                   Query.result.value[r][k] =
                       SetMax({0} \cup { LabelOf(i) : i \in { n \in DOMAIN Query.segment_numbers :
                                                                SelectedPlane(r, n)[k] > 0 } })
             /\ MaximumOf(Query.result.value) =
                   SetMax({0} \cup { LabelOf(i) : i \in SegmentsInOutput })

\* Two segments were combined under their own numbers, given in descending
\* order, and both have pixels in the label map.
CombinedWitness ==
    /\ CombiningBinary
    /\ StoresFrames
    /\ ~Query.relabel
    /\ Query.segment_numbers = <<2, 1>>
    /\ Query.result.raised = ""
    /\ SegmentsInOutput = {1, 2}
    /\ Range(Flatten(Query.result.value)) = {0, 1, 2}

\* The segments of an object without stored frames were to be combined with
\* a matrix that selects no frame: the call raised.
CombinedFramelessReached ==
    /\ CombiningBinary
    /\ ~StoresFrames
    /\ PixelData = <<>>
    /\ Query.seg_frames_matrix = << <<-1>> >>
    /\ Query.result.raised # ""

\* C15: on an object with stored frames, _get_pixels_by_seg_frame raises and
\* returns no array when the frame matrix has an entry outside
\* {-1} \cup 1..NumberOfFrames, when segment_numbers has another length than
\* the matrix has columns, when a segment number is outside
\* 1..number_of_segments, or when segments are to be combined and the type
\* is not BINARY; otherwise every cell with entry -1 is all zero in the
\* output and every cell with entry f >= 1 holds stored frame f.
FrameMatrixIsValidated ==
    (Queried /\ NumberOfFrames > 0) =>
        IF \/ ~EntriesAreFrames
           \/ ~SegmentNumbersFit
           \/ Query.combine_segments /\ c.SegmentationType # "BINARY"
        THEN Query.result.raised # "" /\ Query.result.value = <<>>
        ELSE Query.combine_segments
             \/ /\ Query.result.raised = ""
                /\ \A r \in DOMAIN Query.seg_frames_matrix :
                      \A i \in DOMAIN Query.segment_numbers :
                         \A k \in 1..(c.Rows * c.Columns) :
                            Query.result.value[r][k][i] = SelectedPlane(r, i)[k]

\* Some stored frame refers to no source frame or to more than one.
SomeFrameIsAmbiguous ==
    \E f \in DOMAIN PerFrameFunctionalGroupsSequence :
        ~HasSingleSourceFrame(PerFrameFunctionalGroupsSequence[f])

\* Arguments offered to get_pixels_by_source_frame.
SourceFrameQueries ==
    { [ uids |-> u, frames |-> f, segs |-> s, combine |-> cmb,
        assert_locations_preserved |-> alp, assert_missing_frames_are_empty |-> amf ] :
        u \in QueryUidLists,
        f \in {None, Given(<<1>>), Given(<<2, 1>>)},
        s \in {None, Given(<<1>>)},
        cmb \in BOOLEAN, alp \in BOOLEAN, amf \in BOOLEAN }

BySourceFrame(q) ==
    get_pixels_by_source_frame(c, Self, q.uids, q.frames, q.segs, q.combine, FALSE,
                               q.assert_locations_preserved,
                               q.assert_missing_frames_are_empty)

\* C16: once a stored frame refers to no source frame or to several, the
\* single-source-frame flag is false after the add_segments call that stored
\* it and after every later call, and every get_pixels_by_source_frame call
\* raises, whatever its arguments.
AmbiguousFramesDisableSourceQueries ==
    (phase = "ready" /\ SomeFrameIsAmbiguous) =>
        /\ ~single_source_frame_per_seg_frame
        /\ \A q \in SourceFrameQueries : BySourceFrame(q).raised # ""

\* The call of get_pixels_by_source_frame a run has made on a loaded object.
Loaded == phase = "queried" /\ last.op = "from_dataset"

\* What the source references of the stored frames state.
SourceReferences ==
    Flatten([f \in DOMAIN PerFrameFunctionalGroupsSequence |->
                FrameSourceItems(PerFrameFunctionalGroupsSequence[f])])

SomeReferenceStatesNo ==
    \E i \in DOMAIN SourceReferences : SourceReferences[i].SpatialLocationsPreserved = "NO"

KnownToBePreserved ==
    /\ \A f \in DOMAIN PerFrameFunctionalGroupsSequence :
          FrameSourceItems(PerFrameFunctionalGroupsSequence[f]) # <<>>
    /\ \A i \in DOMAIN SourceReferences : SourceReferences[i].SpatialLocationsPreserved = "YES"

\* The errors of the checks that permit indexing by source frame
\* (sop.py:1574-1595).
PermissionRefusals ==
    { "RuntimeError: image does not specify that spatial locations are preserved",
      "RuntimeError: spatial locations are not preserved",
      "RuntimeError: some frames specify multiple source frames" }

\* C17: get_pixels_by_source_frame gets past its permission checks only when
\* the source references state that spatial locations are preserved, or the
\* caller asserts it and no reference states NO; the checks refuse the call
\* when the status is not known and assert_locations_preserved is not
\* passed, refuse it when a reference states NO whatever the flag, and
\* refuse it whatever the flag when a frame has no single source frame.
SourceQueriesNeedPreservedLocations ==
    Loaded =>
        /\ (~KnownToBePreserved /\ ~Query.assert_locations_preserved)
              => Query.result.raised \in PermissionRefusals
        /\ SomeReferenceStatesNo => Query.result.raised \in PermissionRefusals
        /\ SomeFrameIsAmbiguous => Query.result.raised \in PermissionRefusals
        /\ Query.result.raised \notin PermissionRefusals
              => \/ KnownToBePreserved
                 \/ Query.assert_locations_preserved /\ ~SomeReferenceStatesNo

\* A reference states NO and the query was refused although the caller
\* asserted that locations are preserved.
PreservedWitness ==
    /\ Loaded
    /\ SomeReferenceStatesNo
    /\ ~SomeFrameIsAmbiguous
    /\ Query.assert_locations_preserved
    /\ Query.result.raised = "RuntimeError: spatial locations are not preserved"

\* Every plane position of the call equals the source plane position of the
\* same index, and the plane orientation is the source orientation.
CallKeepsSourcePlanes ==
    /\ c.plane_orientation_is_source_orientation
    /\ \A i \in DOMAIN CallPositions :
          /\ i <= Len(c.source_plane_positions)
          /\ CallPositions[i] = c.source_plane_positions[i]

\* C18: the frames a call adds all carry single-source derivation metadata
\* when the call's plane positions and orientation are those of the source,
\* and none of them does otherwise; a plane-position list that differs from
\* the source list in content or in length never makes the call fail on the
\* comparison.
DerivationIsAllOrNothing ==
    [][ /\ last'.raised # "IndexError: list index out of range"
        /\ (last'.raised = "" /\ CallNumbers # <<>>) =>
              \A f \in NewFrames :
                 (PerFrameFunctionalGroupsSequence'[f].DerivationImageSequence # <<>>)
                    <=> CallKeepsSourcePlanes
      ]_vars

\* add_segments applied to the object as it is, with default plane positions
\* and a working codec.
Added(a, numbers) ==
    add_segments(c, Self, a, Descriptions(numbers, Len(SegmentSequence)), None, 0)

\* The frames a call adds to the object, as (segment number, plane position,
\* non-zero mask).
FramesAddedBy(r) ==
    { << r.self.PerFrameFunctionalGroupsSequence[f].ReferencedSegmentNumber,
         r.self.PerFrameFunctionalGroupsSequence[f].PlanePosition,
         NonZero(Dataset_pixel_array(c, r.self).value[f]) >> :
        f \in (NumberOfFrames + 1)..(r.self.NumberOfFrames) }

FloatArrays ==
    { a \in TypedArrays(Len(c.source_plane_positions), c.Columns) : a.dtype \in FloatDtypes }

LabelArrays ==
    { a \in TypedArrays(Len(c.source_plane_positions), c.Columns) : a.dtype \in IntegerDtypes }

Samples(a) == Range(Flatten(a.data))

\* The descriptor lists offered with a floating-point array: the lists of
\* the calls above, the empty list, and the one descriptor with the next
\* number, which passes the numbering check whatever the object holds.
FloatCallNumbers == NumberLists \cup {<<>>, <<Len(SegmentSequence) + 1>>}

\* The call raises and leaves the object as it was.
Refused(a, numbers) == Added(a, numbers).raised # "" /\ Added(a, numbers).self = Self

\* The frames read back from the object after the call are the masks
\* (value = 1.0) of the non-empty planes, under the descriptor's number.
MaskIsStored(a, numbers) ==
    FramesAddedBy(Added(a, numbers)) =
        { << numbers[1], c.source_plane_positions[j],
             [k \in DOMAIN a.data[j] |-> IF a.data[j][k] = FloatDen THEN 1 ELSE 0] >> :
            j \in { i \in DOMAIN a.data : FloatDen \in Range(a.data[i]) } }

FloatInputIsInvalid(a, numbers) ==
    \/ \E v \in Samples(a) : v < 0 \/ v > FloatDen
    \/ Len(numbers) # 1
    \/ c.SegmentationType = "BINARY" /\ Samples(a) \ {0, FloatDen} # {}

\* C19: for floating-point input the call raises and leaves the object as
\* it was when a value is outside [0.0, 1.0], when the descriptors are not
\* exactly one, or when the type is BINARY and a value is neither 0.0 nor
\* 1.0; otherwise a BINARY object that takes the call stores the mask
\* (value = 1.0) of every non-empty plane under the descriptor's number.
FloatInputIsValidated ==
    (phase \in {"new", "ready"} /\ codec_errors = 0) =>
        \A a \in FloatArrays, numbers \in FloatCallNumbers :
            IF FloatInputIsInvalid(a, numbers)
            THEN Refused(a, numbers)
            ELSE (c.SegmentationType = "BINARY" /\ Added(a, numbers).raised = "") =>
                    MaskIsStored(a, numbers)

\* The refusals on their own.
FloatInputIsRefused ==
    (phase \in {"new", "ready"} /\ codec_errors = 0) =>
        \A a \in FloatArrays, numbers \in FloatCallNumbers :
            FloatInputIsInvalid(a, numbers) => Refused(a, numbers)

\* The whole of it where pack_bits does not pad its output.
FloatMaskIsStoredUnpadded == ~pack_bits_pad => FloatInputIsValidated

\* Two calls have each added a segment of three bit-packed frames, a null
\* byte of pack_bits follows the second segment's bytes, and the frames of a
\* third segment, appended after it, are not read back as the mask.
FloatMaskIsShifted ==
    /\ pack_bits_pad
    /\ phase = "ready"
    /\ last.constructed /\ last.raised = "" /\ last.numbers = <<2>>
    /\ NumberOfFrames = 6
    /\ PixelData = <<2, 1, 3, 2, 1, 3, 0, PadByte>>
    /\ \E a \in FloatArrays :
          /\ ~FloatInputIsInvalid(a, <<3>>)
          /\ Added(a, <<3>>).raised = ""
          /\ ~MaskIsStored(a, <<3>>)

\* A BINARY object has taken a float mask as its second segment.
FloatWitness ==
    /\ c.SegmentationType = "BINARY"
    /\ last.raised = ""
    /\ last.constructed
    /\ last.numbers = <<2>>
    /\ last.pixel_array.dtype = "float64"
    /\ NumberOfFrames > 0
    /\ \E f \in 1..NumberOfFrames :
          PerFrameFunctionalGroupsSequence[f].ReferencedSegmentNumber = 2

\* C20: for boolean or unsigned-integer input outside the case of positive
\* values {1} with one descriptor, the call raises and adds no segment and no
\* frame when the array holds a positive value none of the call's
\* descriptors has; otherwise no descriptor is refused for lacking pixels,
\* and a descriptor whose number does not occur in the array is registered
\* with no frame.
LabelsNeedDescriptors ==
    (phase \in {"new", "ready"} /\ codec_errors = 0) =>
        \A a \in LabelArrays, numbers \in NumberLists :
            ~(Positive(a) = {1} /\ Len(numbers) = 1) =>
                IF ~(Positive(a) \subseteq Range(numbers))
                THEN /\ Added(a, numbers).raised # ""
                     /\ Added(a, numbers).self.SegmentSequence = SegmentSequence
                     /\ Added(a, numbers).self.segment_inventory = segment_inventory
                     /\ Added(a, numbers).self.NumberOfFrames = NumberOfFrames
                     /\ Added(a, numbers).self.PerFrameFunctionalGroupsSequence
                            = PerFrameFunctionalGroupsSequence
                ELSE /\ Added(a, numbers).raised
                            # "ValueError: Pixel array contains segments that lack descriptions."
                     /\ Added(a, numbers).raised = "" =>
                          \A d \in Range(numbers) \ Positive(a) :
                             /\ d \in Added(a, numbers).self.segment_inventory
                             /\ \A fr \in FramesAddedBy(Added(a, numbers)) : fr[1] # d

\* C21: whatever plane the frame codec encodes, uncompressed at 8 bits,
\* bit-packed at 1 bit or compressed, decoding the encoded frame gives the
\* plane back.
CodecRoundTrip ==
    (phase = "decoded" /\ last.op = "decode_frame")
        => (last.raised = "" /\ last.array = argument.value.array)

\* The round trip of the schemes that keep every sample.
LosslessRoundTrip ==
    (phase = "decoded" /\ argument.value.transfer_syntax_uid # "JPEGBaseline")
        => (last.raised = "" /\ last.array = argument.value.array)

\* C22: bit-packing a plane.
BitPacked ==
    /\ ~argument.is_None
    /\ argument.value.bits_allocated = 1
    /\ argument.value.transfer_syntax_uid \in {"ExplicitVRLittleEndian", "ImplicitVRLittleEndian"}

\* Sample k (from 0) of the plane flattened row-major.
RowMajorSample(array, k) == array[(k \div Len(array[1])) + 1][(k % Len(array[1])) + 1]

BitOf(bytes, k) == (bytes[(k \div 8) + 1] \div Pow2(k % 8)) % 2

\* C22 as stated: a bit-packed frame holds sample k of the row-major plane in
\* bit (k mod 8) of byte (k div 8), and the 2x2 plane [[1,0],[0,1]] is
\* encoded to exactly one byte that decodes to the plane.
TwoByTwoPacksToOneByte ==
    (BitPacked /\ phase # "new")
        => /\ returned.value.raised = ""
              => \A k \in 0..(Len(Flatten(argument.value.array)) - 1) :
                    BitOf(returned.value.value, k) = RowMajorSample(argument.value.array, k)
           /\ argument.value.array = << <<1, 0>>, <<0, 1>> >>
              => /\ returned.value.raised = ""
                 /\ Len(returned.value.value) = 1
                 /\ phase = "decoded" => last.array = argument.value.array

\* The bytes 8 samples per byte take, and the null byte pack_bits adds to an
\* odd number of them where it pads.
PackedLength(samples) ==
    LET packed == samples \div 8
    IN IF pack_bits_pad /\ packed % 2 = 1 THEN packed + 1 ELSE packed

\* C22, amended: a bit-packed frame holds sample k of the row-major plane in
\* bit (k mod 8) of byte (k div 8), it has one byte per 8 samples, followed
\* by one null byte where pack_bits pads an odd number of bytes to even
\* length, and decodes to the plane; the 2x4 plane [[1,0,0,0],[0,0,0,1]] is
\* encoded to the one byte 129 (and that null byte), and the 2x2 plane
\* [[1,0],[0,1]], of 4 samples, is not encoded.
BitPackingIsLsbFirst ==
    (BitPacked /\ phase # "new")
        => /\ returned.value.raised = ""
              => /\ Len(returned.value.value) = PackedLength(Len(Flatten(argument.value.array)))
                 /\ \A b \in DOMAIN returned.value.value :
                       8 * b > Len(Flatten(argument.value.array)) + 7
                           => returned.value.value[b] = 0
                 /\ \A k \in 0..(Len(Flatten(argument.value.array)) - 1) :
                       BitOf(returned.value.value, k) = RowMajorSample(argument.value.array, k)
                 /\ phase = "decoded" => last.array = argument.value.array
           /\ argument.value.array = << <<1, 0, 0, 0>>, <<0, 0, 0, 1>> >>
              => returned.value = [raised |-> "",
                                   value |-> IF pack_bits_pad THEN <<129, 0>> ELSE <<129>>]
           /\ argument.value.array = << <<1, 0>>, <<0, 1>> >>
              => (returned.value.raised # "" /\ returned.value.value = <<>>)

\* The 2x4 plane went through a pack_bits that pads.
BitPackingWitness ==
    /\ BitPacked
    /\ phase = "decoded"
    /\ argument.value.array = << <<1, 0, 0, 0>>, <<0, 0, 0, 1>> >>
    /\ returned.value.value = <<129, 0>>
    /\ last.array = argument.value.array

\* The same plane through a pack_bits that does not pad.
BitPackingUnpaddedReached ==
    /\ BitPacked
    /\ phase = "decoded"
    /\ argument.value.array = << <<1, 0, 0, 0>>, <<0, 0, 0, 1>> >>
    /\ returned.value.value = <<129>>

\* C23: what the frame codec and the constructor refuse.
CodecRun == ~argument.is_None /\ phase # "new"

NoBytes(r) == r.raised # "" /\ r.value = <<>>

SupportedByCodec ==
    {"ExplicitVRLittleEndian", "ImplicitVRLittleEndian", "JPEGBaseline",
     "JPEG2000Lossless", "RLELossless"}

\* C23: encode_frame raises and returns nothing for a transfer syntax it
\* does not support and for a 1-bit uncompressed frame whose size is not a
\* multiple of 8; _encode_pixels raises and returns nothing for more than one
\* plane under an encapsulated transfer syntax; the constructor raises for a
\* BINARY segmentation with an encapsulated transfer syntax and leaves no
\* object.
CodecRefusals ==
    /\ (CodecRun /\ argument.value.transfer_syntax_uid \notin SupportedByCodec)
            => (phase = "aborted" /\ NoBytes(returned.value))
    /\ (BitPacked /\ phase # "new" /\ Len(Flatten(argument.value.array)) % 8 # 0)
            => (phase = "aborted" /\ NoBytes(returned.value))
    /\ (last.op = "_encode_pixels" /\ is_encapsulated(c.TransferSyntaxUID)
            /\ Len(last.planes) > 1)
            => NoBytes(returned.value)
    /\ (argument.is_None /\ phase # "new" /\ c.SegmentationType = "BINARY"
            /\ is_encapsulated(c.TransferSyntaxUID))
            => /\ phase = "aborted"
               /\ last.op = "__init__"
               /\ last.raised # ""
               /\ Self = NewSegmentation

RefusedPlanesWitness ==
    /\ last.op = "_encode_pixels"
    /\ c.TransferSyntaxUID = "JPEG2000Lossless"
    /\ Len(last.planes) = 2
    /\ NoBytes(returned.value)

\* The other three refusals happen as well.
RefusedSyntaxReached ==
    CodecRun /\ argument.value.transfer_syntax_uid = "JPEGLSLossless" /\ phase = "aborted"

RefusedSizeReached ==
    BitPacked /\ argument.value.array = << <<1, 0>>, <<0, 1>> >> /\ phase = "aborted"

RefusedBinaryReached ==
    /\ c.SegmentationType = "BINARY" /\ c.TransferSyntaxUID = "JPEG2000Lossless"
    /\ phase = "aborted" /\ last.op = "__init__"

\* C24: padding of PixelData.
Uncompressed == ~is_encapsulated(c.TransferSyntaxUID)

\* What a successful call leaves, with pad as the value of the pad byte:
\* the encoded frames, then the pad byte if their length is odd; under
\* framewise encoding the frames stored before stay where they were.
PaddedWith(pad) ==
    LET before == get_expected_length(c, NumberOfFrames)
        after == get_expected_length(c, NumberOfFrames')
    IN (last'.op = "add_segments" /\ last'.raised = "" /\ Uncompressed)
        => /\ Len(PixelData') % 2 = 0
           /\ Len(PixelData') = after + (after % 2)
           /\ after % 2 = 1 => PixelData'[after + 1] = pad
           /\ framewise_encoding(c)
                => /\ after >= before
                   /\ SubSeq(PixelData', 1, before) = SubSeq(PixelData, 1, before)

\* C24 as stated: after a successful add_segments call PixelData has even
\* length, ends with one null pad byte exactly when the encoded frames have
\* odd length, and under framewise encoding every stored frame starts at its
\* offset (k-1) * frame size, earlier frames unmoved.
PadByteIsNull == [][PaddedWith(0)]_vars

\* The same with the byte the code appends, where the bytes are not packed
\* by a pack_bits that pads them itself.
PadByteIsAsciiZero ==
    [][(c.SegmentationType = "FRACTIONAL" \/ ~pack_bits_pad) => PaddedWith(PadByte)]_vars

\* Whatever pack_bits does, a successful call leaves an even length.
PixelDataLengthIsEven ==
    [][(last'.op = "add_segments" /\ last'.raised = "" /\ Uncompressed)
            => Len(PixelData') % 2 = 0]_vars

\* Where pack_bits pads, the bit-packed frames of two segments added by one
\* call under framewise encoding are each followed by a null byte: PixelData
\* is longer than its frames and the second segment's frames do not start
\* at their offsets.
FramesShiftedByPackPadding ==
    /\ pack_bits_pad
    /\ framewise_encoding(c)
    /\ last.op = "add_segments" /\ last.raised = ""
    /\ Len(PixelData) > get_expected_length(c, NumberOfFrames) + 1

\* C25: source frame numbers that no stored frame refers to.
ReferencedSourceFrames(uid) ==
    { frame_lut[f][3] : f \in { g \in DOMAIN frame_lut :
                                  frame_lut[g][2] = get_src_uid_index(c, uid) } }

KeyErrorOfSourceFrame ==
    "KeyError: Source frame number does not match any referenced source frame"

\* C25: in get_pixels_by_source_frame with source_frame_numbers, once the
\* checks before it have passed, with assert_missing_frames_are_empty=False
\* KeyError is raised exactly when some requested source frame number is the
\* source frame of no stored frame of the instance, and with
\* assert_missing_frames_are_empty=True the row of a requested source frame
\* number is left without frames only when no stored frame refers to it.
MissingSourceFramesAreReported ==
    LET uid == c.SourceImageSequence[1]
    IN (/\ phase = "ready"
        /\ has_frame_lut
        /\ segment_inventory # {}
        /\ source_frame_indexing_error(Self, FALSE) = ""
        /\ SourceFramesIdentifyFrames(uid))
        => \A frms \in QueryFrameLists :
            /\ (get_pixels_by_source_frame(c, Self, <<uid>>, Given(frms), None,
                                           FALSE, FALSE, FALSE, FALSE).raised
                    = KeyErrorOfSourceFrame)
                <=> (\E r \in DOMAIN frms : frms[r] \notin ReferencedSourceFrames(uid))
            /\ \A r \in DOMAIN frms :
                  (\A k \in DOMAIN segment_numbers(Self) :
                      seg_frames_by_frame_number(c, Self, uid, frms,
                                                 segment_numbers(Self))[r][k]
                          = NO_FRAME_REF_VALUE)
                    => frms[r] \notin ReferencedSourceFrames(uid)

\* C26: the frame collection.
StoredSegmentNumbers(frames) == [f \in DOMAIN frames |-> frames[f].ReferencedSegmentNumber]

NonDecreasing(numbers) ==
    \A i \in 1..(Len(numbers) - 1) : numbers[i] <= numbers[i + 1]

\* C26: whatever add_segments call is made, afterwards NumberOfFrames is the
\* number of per-frame records, the segment numbers of the records do not
\* decrease in stored order, and the records that were stored before the call
\* are all still there, unchanged and in the same places.
FramesAreAppendOnly ==
    [][ /\ NumberOfFrames' = Len(PerFrameFunctionalGroupsSequence')
        /\ NonDecreasing(StoredSegmentNumbers(PerFrameFunctionalGroupsSequence'))
        /\ Len(PerFrameFunctionalGroupsSequence') >= Len(PerFrameFunctionalGroupsSequence)
        /\ SubSeq(PerFrameFunctionalGroupsSequence', 1,
                  Len(PerFrameFunctionalGroupsSequence))
              = PerFrameFunctionalGroupsSequence ]_vars

AppendedWitness ==
    /\ phase = "ready"
    /\ last.constructed
    /\ last.raised = ""
    /\ NumberOfFrames >= 3
    /\ PerFrameFunctionalGroupsSequence[1].ReferencedSegmentNumber = 1
    /\ PerFrameFunctionalGroupsSequence[NumberOfFrames].ReferencedSegmentNumber = 2
    /\ PerFrameFunctionalGroupsSequence[1].DimensionIndexValues
            # PerFrameFunctionalGroupsSequence[NumberOfFrames].DimensionIndexValues

\* C27: the position index values of the stored frames.
FramePositionValues(f) ==
    PositionValues(c.coordinate_system, PerFrameFunctionalGroupsSequence[f].PlanePosition)

\* C27: every stored frame's DimensionIndexValues is its segment number
\* followed by one 1-based index per indexed attribute, and over all stored
\* frames, whatever calls added them, equal values of an attribute have equal
\* indices and a smaller value has a smaller index.
PositionIndicesAreConsistent ==
    \A f \in DOMAIN PerFrameFunctionalGroupsSequence :
        LET item == PerFrameFunctionalGroupsSequence[f]
        IN /\ Len(item.DimensionIndexValues)
                = 1 + Len(DimensionIndexPointers(c.coordinate_system))
           /\ item.DimensionIndexValues[1] = item.ReferencedSegmentNumber
           /\ \A idx \in DOMAIN FramePositionValues(f) :
                /\ item.DimensionIndexValues[idx + 1] >= 1
                /\ \A g \in DOMAIN PerFrameFunctionalGroupsSequence :
                    LET other == PerFrameFunctionalGroupsSequence[g]
                    IN /\ FramePositionValues(f)[idx] = FramePositionValues(g)[idx]
                            => item.DimensionIndexValues[idx + 1]
                                = other.DimensionIndexValues[idx + 1]
                       /\ LexLess(FramePositionValues(f)[idx], FramePositionValues(g)[idx])
                            => item.DimensionIndexValues[idx + 1]
                                < other.DimensionIndexValues[idx + 1]

\* C28: the samples of a FRACTIONAL segmentation.
\* The constructor has stored the planes of a floating-point array.
FractionalStored ==
    /\ argument.is_None
    /\ phase = "ready"
    /\ c.SegmentationType = "FRACTIONAL"
    /\ last.op = "add_segments"
    /\ last.raised = ""
    /\ last.pixel_array.dtype \in FloatDtypes

\* s is value * maximum rounded to a nearest integer (value is a numerator
\* over FloatDen).
IsRounded(s, value, maximum) ==
    /\ 2 * (s * FloatDen - value * maximum) <= FloatDen
    /\ 2 * (value * maximum - s * FloatDen) <= FloatDen

\* The input planes some value of which rounds to a positive sample, in the
\* order of their positions.
PositivePlanes ==
    LET positions == IF last.plane_positions.is_None THEN c.source_plane_positions
                     ELSE last.plane_positions.value
        order == get_index_values(c.coordinate_system, positions).plane_sort_index
        data == last.pixel_array.data
        RoundsUp(j) == \E k \in DOMAIN data[j + 1] :
                          RoundHalfEven(data[j + 1][k] * c.MaximumFractionalValue,
                                        FloatDen) > 0
    IN Flatten([k \in DOMAIN SelectSeq(order, RoundsUp) |->
                  data[SelectSeq(order, RoundsUp)[k] + 1]])

StoredSamples == pixel_array_flat(c, NumberOfFrames, PixelData).value

\* The stored samples are the rounded products, within the given maximum.
ScaledBy(maximum) ==
    /\ NumberOfFrames * c.Rows * c.Columns = Len(PositivePlanes)
    /\ Len(StoredSamples) = Len(PositivePlanes)
    /\ \A k \in DOMAIN StoredSamples :
          /\ StoredSamples[k] \in 0..maximum
          /\ IsRounded(StoredSamples[k], PositivePlanes[k], maximum)

\* C28 as stated: whatever max_fractional_value the constructor accepted and
\* whatever values in [0.0, 1.0] it was given, every stored sample is
\* value * MaximumFractionalValue rounded, between 0 and
\* MaximumFractionalValue; 1.0 is stored as MaximumFractionalValue.
FractionalSamplesAreScaled ==
    FractionalStored => ScaledBy(c.MaximumFractionalValue)

\* The same for the maximum values that fit 8 bits.
FractionalSamplesFitEightBits ==
    (FractionalStored /\ c.MaximumFractionalValue < Pow2(8))
        => ScaledBy(c.MaximumFractionalValue)

\* C29: SegmentsOverlap.
\* Two stored frames of different segments at one plane position have a
\* positive sample at the same place.
StoredSegmentsOverlap ==
    LET frames == PerFrameFunctionalGroupsSequence
        pixels == Dataset_pixel_array(c, Self).value
    IN \E f \in DOMAIN pixels, g \in DOMAIN pixels :
          /\ f <= Len(frames) /\ g <= Len(frames)
          /\ frames[f].ReferencedSegmentNumber # frames[g].ReferencedSegmentNumber
          /\ frames[f].PlanePosition = frames[g].PlanePosition
          /\ \E k \in DOMAIN pixels[f] : pixels[f][k] > 0 /\ pixels[g][k] > 0

\* SegmentsOverlap goes from NO, after the constructor's call, to UNDEFINED
\* with the next call that returns, and stays UNDEFINED.
OverlapGoesUndefined ==
    /\ (phase' = "ready" /\ ~last'.constructed) => SegmentsOverlap' = "NO"
    /\ (last'.constructed /\ last'.raised = "") => SegmentsOverlap' = "UNDEFINED"
    /\ SegmentsOverlap = "UNDEFINED" => SegmentsOverlap' = "UNDEFINED"

\* C29: SegmentsOverlap is NO after the first successful add_segments call
\* and UNDEFINED after any later one, never NO again; and while it is NO no
\* two stored segments have a positive pixel at the same plane position and
\* pixel location.
OverlapIsNoOnlyWithoutOverlap ==
    [][ /\ OverlapGoesUndefined
        /\ (phase' = "ready" /\ SegmentsOverlap' = "NO") => ~StoredSegmentsOverlap' ]_vars

\* The first part on its own.
OverlapFlagProgress == [][OverlapGoesUndefined]_vars

\* C30: objects read from a dataset.
NumberedFromOne(segments) ==
    \A i \in DOMAIN segments : segments[i].SegmentNumber = i

\* C30: every add_segments call on an object read by from_dataset raises the
\* error of the first check, whatever its arguments, and leaves the segments,
\* the inventory, the per-frame records, NumberOfFrames, PixelData and the
\* frame LUT as they were; and from_dataset raises for a dataset whose
\* segments are not numbered 1, 2, ... in order.
LoadedObjectsAreReadOnly ==
    [][ /\ (phase = "loaded" /\ last'.op = "add_segments")
            => /\ last'.raised = "AttributeError: created from existing dataset"
               /\ UNCHANGED object
        /\ (phase = "new" /\ ~NumberedFromOne(argument.value.SegmentSequence))
            => (phase' = "aborted" /\ last'.raised # "") ]_vars

ReadOnlyWitness ==
    /\ phase = "added"
    /\ last.op = "add_segments"
    /\ last.raised = "AttributeError: created from existing dataset"
    /\ last.numbers = <<1>>
    /\ NumberOfFrames = 2
    /\ Len(frame_lut) = 2
    /\ PixelData # <<>>
    /\ SegmentSequence = <<>>

MisnumberedDatasetReached ==
    phase = "aborted" /\ argument.value.SegmentSequence[1].SegmentNumber = 2

====
